---- MODULE Spec2Model ----
(***************************************************************************)
(* The authentication / authorization core of the content API:             *)
(* backend/models.py, backend/decorators.py and backend/routes/*.py.       *)
(* The persistent store is the state.  Every route handler is an operator  *)
(* from the request and the store to its outcome (the HTTP response and the *)
(* store it leaves), and one action that serves the request.               *)
(***************************************************************************)
EXTENDS Integers, Sequences, FiniteSets, Bags, TLC

\* ------------------------------------------------------------------ bounds
NumUsers == 3
MaxGroups == 2
MaxPosts == 2
MaxComments == 1
MaxCourses == 2
MaxInflight == 2
\* tokens issued and kept under observation
MaxIssued == 2
\* the clock is observed for MaxTicks ticks after the start and after a day
MaxTicks == 5
\* clock resolution: datetime.utcnow() is finer than the whole seconds of "exp"
TicksPerSecond == 2

\* Python's None: a missing row, a missing JSON field, a null column.
None == 0

Users == 1..NumUsers
\* ids a client may put in a URL or a body: the users plus one id of no user
UserIdInputs == 1..(NumUsers + 1)
GroupIds == 1..MaxGroups
PostIds == 1..MaxPosts
Names == {"n1", "n2"}

\* The Authorization header of a request: absent, or a token.  valid stands
\* for jwt.decode accepting the token (signature and expiry); a token that
\* jwt.decode refuses is refused whatever user it names, so one stands for all.
NoHeader == [kind |-> "none", user_id |-> None, valid |-> FALSE]
BadToken == [kind |-> "token", user_id |-> 1, valid |-> FALSE]
Headers == {NoHeader, BadToken} \cup
           {[kind |-> "token", user_id |-> u, valid |-> TRUE] : u \in Users}

VARIABLES
    groups,           \* groups table: id -> [creator_id, name]
    group_members,    \* group_members table: a bag of rows <<user_id, group_id>>
    posts,            \* posts table: rows [id, user_id, group_id] in stored order
    comments,         \* comments table: rows [id, user_id, post_id]
    next_group_id,    \* the tables' id sequences
    next_post_id,
    next_comment_id,
    courses,          \* courses table: rows [id, code]
    next_course_id,
    users,            \* users table: id -> [username, is_active, last_login]
    email,            \* users.email of each user
    password_hash,    \* users.password_hash of each user
    now,              \* the server's clock (datetime.utcnow()), in ticks
    issued,           \* the tokens generate_token has returned, with their issue
    jwt_build,        \* the installed PyJWT's expiry comparison
    requests          \* the requests served step by step, each with its position

\* the database
store == <<groups, group_members, posts, comments,
           next_group_id, next_post_id, next_comment_id,
           courses, next_course_id, users, email, password_hash>>

vars == <<store, now, issued, jwt_build, requests>>

\* ------------------------------------------------------------ the store
\* User.query.get(user_id) finds a row
UserExists(user_id) == user_id \in DOMAIN users

\* a verify_token that also consults the stored credential: a token dies
\* when its subject's password hash is replaced
verify_token_bound_to_password(token) ==
    IF token.valid /\ UserExists(token.user_id)
                   /\ password_hash[token.user_id].salt = 1
    THEN token.user_id
    ELSE None

\* User.verify_token: the user the token names, None when decoding fails
verify_token(token) ==
    IF token.valid
    THEN IF UserExists(token.user_id) THEN token.user_id ELSE None
    ELSE None

\* ------------------------------------------------------------ tokens
\* config.py
JWT_SECRET_KEY == "server-secret"
JWT_ACCESS_TOKEN_EXPIRES == 86400
Keys == {JWT_SECRET_KEY, "other-secret"}

\* generate_token(expires_in=None)
NoLifetime == -1
Lifetimes == {NoLifetime, 0, 1}

\* users.username: unique, set at registration and never updated (a user
\* id with no row has none)
username(u) == IF UserExists(u) THEN users[u].username ELSE <<>>

\* calendar.timegm(d.utctimetuple()): a datetime in whole seconds, the
\* fraction dropped (PyJWT encodes a datetime "exp" this way)
timegm(t) == t \div TicksPerSecond

\* timedelta(seconds=n)
timedelta(seconds) == seconds * TicksPerSecond

\* HS256 over the signed content, as an ideal MAC: equal exactly when the key
\* and the content are equal
HS256(payload, key) == <<key, payload>>

\* jwt.encode(payload, key, algorithm='HS256')
jwt_encode(payload, key) ==
    [wellformed |-> TRUE, alg |-> "HS256",
     payload |-> [payload EXCEPT !.exp = timegm(payload.exp)],
     signature |-> HS256([payload EXCEPT !.exp = timegm(payload.exp)], key)]

\* generate_token encoding the id of another user
token_payload_next_user(u, exp) ==
    [user_id |-> (u % NumUsers) + 1, username |-> username(u), exp |-> exp]

\* generate_token: the payload
token_payload(u, exp) ==
    [user_id |-> u, username |-> username(u), exp |-> exp]

\* User.generate_token called at clock t
generate_token(u, expires_in, t) ==
    LET e == IF expires_in = NoLifetime THEN JWT_ACCESS_TOKEN_EXPIRES ELSE expires_in
    IN  jwt_encode(token_payload(u, t + timedelta(e)), JWT_SECRET_KEY)

\* jwt.decode with the signature left unverified
signature_ok_unverified(token, key) == TRUE

\* jwt.decode: the signature is recomputed with the server's key
signature_ok(token, key) == token.signature = HS256(token.payload, key)

\* jwt.decode with the "exp" claim ignored
expired_never(exp, t) == FALSE

\* jwt.decode, _validate_exp with leeway 0.  The repository pins no PyJWT
\* version; the 2.x releases compare in three ways.
expired(exp, t) ==
    CASE jwt_build = "seconds_lt" -> exp < timegm(t)
      [] jwt_build = "seconds_le" -> exp <= timegm(t)
      [] jwt_build = "float_le"   -> exp * TicksPerSecond <= t

Builds == {"seconds_lt", "seconds_le", "float_le"}

\* jwt.decode(token, JWT_SECRET_KEY, algorithms=['HS256']) returns the payload
\* (otherwise it raises ExpiredSignatureError or another InvalidTokenError)
jwt_accepts(token, key, t) ==
    /\ token.wellformed
    /\ token.alg = "HS256"
    /\ signature_ok(token, key)
    /\ ~expired(token.payload.exp, t)

\* the token as verify_token sees it at clock t
decoded(token, t) ==
    IF jwt_accepts(token, JWT_SECRET_KEY, t)
    THEN [kind |-> "token", user_id |-> token.payload.user_id, valid |-> TRUE]
    ELSE BadToken

\* User.verify_token(token) called at clock t
verify_token_at(token, t) == verify_token(decoded(token, t))

\* The Authorization header as the client sends it: absent, or a token after
\* a prefix.  login_required strips exactly the prefix "Bearer ".
Prefixes == {"", "Bearer ", "bearer "}
RawHeader(present, prefix, token) ==
    [present |-> present, prefix |-> prefix, token |-> token]

\* login_required with the prefix left in the token
strip_bearer_never(raw) ==
    IF raw.prefix = "" THEN raw.token ELSE [raw.token EXCEPT !.wellformed = FALSE]

\* token = token[7:] when the header starts with 'Bearer '; any other prefix
\* stays in the string handed to jwt.decode, which is then no JWT
strip_bearer(raw) ==
    IF raw.prefix \in {"", "Bearer "} THEN raw.token
    ELSE [raw.token EXCEPT !.wellformed = FALSE]

\* login_required, lines 22-31, at clock t: what the gate makes of the header
credential(raw, t) ==
    IF ~raw.present THEN NoHeader ELSE decoded(strip_bearer(raw), t)

\* the header handling that login_required and get_posts share
header_user(hdr) ==
    IF hdr.kind = "none" THEN None ELSE verify_token(hdr)

AuthKind(hdr) ==
    IF hdr.kind = "none" THEN "none"
    ELSE IF verify_token(hdr) = None THEN "invalid" ELSE "valid"

\* Group.query.get(id)
GroupExists(gid) == gid \in DOMAIN groups

\* a membership test that also admits the group's creator
is_member_or_creator(gid, uid) ==
    \/ BagIn(<<uid, gid>>, group_members)
    \/ GroupExists(gid) /\ groups[gid].creator_id = uid

\* group.members.filter_by(id=uid).first() is not None
is_member(gid, uid) == BagIn(<<uid, gid>>, group_members)

\* the rows of group_members that belong to one group
MemberRows(gid) ==
    LET rows == {r \in BagToSet(group_members) : r[2] = gid}
    IN  [r \in rows |-> group_members[r]]

\* a count that sees one member in every group
members_count_one(gid) == 1

\* group.members.count()
members_count(gid) == BagCardinality(MemberRows(gid))

\* the primary key (user_id, group_id) of group_members: an INSERT of a row
\* that is already there raises IntegrityError
PrimaryKeyFree(uid, gid) == ~BagIn(<<uid, gid>>, group_members)

\* a posts row.  group_id is the nullable column the migration
\* add_group_id_to_posts adds to the table (foreign key to groups.id); the
\* routes read it as p.group_id and pass it to the constructor.
Post(id, user_id, group_id) == [id |-> id, user_id |-> user_id, group_id |-> group_id]

\* a comments row that records its post's author in place of the requester
Comment_by_post_author(id, user_id, post_id) ==
    [id |-> id,
     user_id |-> posts[CHOOSE i \in 1..Len(posts) : posts[i].id = post_id].user_id,
     post_id |-> post_id]

\* a comments row
Comment(id, user_id, post_id) == [id |-> id, user_id |-> user_id, post_id |-> post_id]

\* a groups row
Group(creator_id, name) == [creator_id |-> creator_id, name |-> name]

\* Post.query.get(id)
PostRows(pid) == {i \in 1..Len(posts) : posts[i].id = pid}
PostExists(pid) == PostRows(pid) # {}
PostOf(pid) == posts[CHOOSE i \in PostRows(pid) : TRUE]

PostIdsOf(rows) == [i \in 1..Len(rows) |-> rows[i].id]
Reverse(s) == [i \in 1..Len(s) |-> s[Len(s) + 1 - i]]
Range(s) == {s[i] : i \in 1..Len(s)}

\* post.comments (backref of Comment.post)
CommentsOf(pid) == {c \in comments : c.post_id = pid}

\* u.posts (User.posts relationship)
PostsOfUser(uid) == SelectSeq(posts, LAMBDA p : p.user_id = uid)

\* ------------------------------------------------------------ text fields
\* Strings that the code inspects are sequences of characters.
LowerLetters == <<"a", "b", "c", "s", "w", "x">>
UpperLetters == <<"A", "B", "C", "S", "W", "X">>
Digits == {"1", "2"}
Letters == Range(LowerLetters) \cup Range(UpperLetters)

\* a JSON body without the key
Missing == <<"(missing)">>

\* str.upper() of one character and of a string
upper_char(c) ==
    IF c \in Range(LowerLetters)
    THEN UpperLetters[CHOOSE i \in 1..Len(LowerLetters) : LowerLetters[i] = c]
    ELSE c
upper(text) == [i \in 1..Len(text) |-> upper_char(text[i])]

\* str.strip()
RECURSIVE lstrip(_)
lstrip(text) ==
    IF text # <<>> /\ Head(text) = " " THEN lstrip(Tail(text)) ELSE text
strip(text) == Reverse(lstrip(Reverse(lstrip(text))))

\* sanitize_plain_text on text without markup: bleach leaves it, strip() trims
sanitize_plain_text(text) == IF text = <<>> THEN <<>> ELSE strip(text)

\* validate_password
validate_password(password) ==
    /\ password # <<>>
    /\ Len(password) >= 8
    /\ \E i \in 1..Len(password) : password[i] \in Range(UpperLetters)
    /\ \E i \in 1..Len(password) : password[i] \in Range(LowerLetters)
    /\ \E i \in 1..Len(password) : password[i] \in Digits

\* validate_email: ^[a-zA-Z0-9._%+-]+@[a-zA-Z0-9.-]+\.[a-zA-Z]{2,}$, max 120
validate_email(text) ==
    /\ text # <<>>
    /\ \E at \in 1..Len(text), dot \in 1..Len(text) :
          /\ 1 < at /\ at + 1 < dot /\ dot + 2 <= Len(text)
          /\ text[at] = "@" /\ text[dot] = "."
          /\ \A i \in 1..(at - 1) :
                 text[i] \in Letters \cup Digits \cup {".", "_", "%", "+", "-"}
          /\ \A i \in (at + 1)..(dot - 1) : text[i] \in Letters \cup Digits \cup {".", "-"}
          /\ \A i \in (dot + 1)..Len(text) : text[i] \in Letters
    /\ Len(text) <= 120

\* validate_username: ^[a-zA-Z0-9_]+$, 3 to 80 characters
validate_username(name) ==
    /\ name # <<>>
    /\ Len(name) >= 3 /\ Len(name) <= 80
    /\ \A i \in 1..Len(name) : name[i] \in Letters \cup Digits \cup {"_"}

\* validate_course_code: ^[A-Za-z0-9]{3,10}$
validate_course_code(code) ==
    /\ code # <<>>
    /\ Len(code) >= 3 /\ Len(code) <= 10
    /\ \A i \in 1..Len(code) : code[i] \in Letters \cup Digits

\* the text fields requests carry
PasswordInputs ==
    {<<>>, <<"a", "b", "c">>,
     <<"S", "w", "a", "b", "c", "x", "1", "2">>,
     <<"W", "s", "a", "b", "c", "x", "2", "1">>}
InitialPassword == <<"S", "w", "a", "b", "c", "x", "1", "2">>
Email(u) == <<LowerLetters[u], "@", "x", ".", "c", "a">>
Handle(u) == <<LowerLetters[u], "b", "c">>
UsernameInputs ==
    {Handle(1), Handle(2), <<" ", "a", "b", "c">>, <<"a", "b">>, <<"w", "_", "1">>}
EmailInputs == {Email(1), Email(2), <<"a", "@", "x">>, <<" ", "w", "@", "x", ".", "c", "a">>}
CodeInputs == {<<>>, <<"c", "s", "1">>, <<"C", "S", "1">>, <<"a", "b", "2">>, <<"c", "-">>}
Salts == {1, 2}

\* ------------------------------------------------------------ credentials
\* werkzeug generate_password_hash with the salt it drew: the salt and the
\* digest of salt and password; the digest as an ideal hash
generate_password_hash(password, salt) ==
    [salt |-> salt, digest |-> <<salt, password>>]

\* check_password_hash accepting every password
check_password_hash_any(pwhash, password) == TRUE

\* werkzeug check_password_hash: the digest recomputed with the stored salt
check_password_hash(pwhash, password) ==
    pwhash.digest = <<pwhash.salt, password>>

\* a set_password that folds the password to upper case before hashing
set_password_of_upper(password, salt) == generate_password_hash(upper(password), salt)

\* User.set_password: the value self.password_hash receives
set_password(password, salt) == generate_password_hash(password, salt)

\* User.check_password on a user's password_hash
check_password(pwhash, password) == check_password_hash(pwhash, password)

\* ------------------------------------------------------------ responses
Response(op, hdr, status, msg, gid, pid, uid, body) ==
    [op |-> op, auth |-> AuthKind(hdr), user |-> header_user(hdr),
     status |-> status, msg |-> msg, gid |-> gid, pid |-> pid, uid |-> uid,
     body |-> body]

\* login_required testing only that a header is present
login_rejects_absent_only(hdr) == hdr.kind = "none"

\* login_required: no header or a token that does not verify ends the
\* request with 401 before the handler runs
login_rejects(hdr) == header_user(hdr) = None

\* the outcome of a request: its response and the store it leaves
Outcome(r, g, m, p, c, ng, np, nc) ==
    [resp |-> r, groups |-> g, group_members |-> m, posts |-> p, comments |-> c,
     next_group_id |-> ng, next_post_id |-> np, next_comment_id |-> nc,
     courses |-> courses, next_course_id |-> next_course_id,
     users |-> users, email |-> email, password_hash |-> password_hash]

\* an answer that leaves a drawn comment id behind
Answer_after_partial_write(r) ==
    Outcome(r, groups, group_members, posts, comments,
            next_group_id, next_post_id, next_comment_id + 1)

\* a handler that answers without committing anything (or after a rollback)
Answer(r) ==
    Outcome(r, groups, group_members, posts, comments,
            next_group_id, next_post_id, next_comment_id)

login_required(op, hdr, gid, pid, uid) ==
    Answer(Response(op, hdr, 401,
                    IF hdr.kind = "none" THEN "Authorization token required"
                    ELSE "Invalid or expired token",
                    gid, pid, uid, <<>>))

\* the tables of a fresh database
InitContent ==
    /\ groups = <<>>
    /\ group_members = EmptyBag
    /\ posts = <<>>
    /\ comments = {}
    /\ next_group_id = 1
    /\ next_post_id = 1
    /\ next_comment_id = 1
    /\ courses = {}
    /\ next_course_id = 1

\* users.last_login of a user who has not logged in (NULL)
Never == -1

\* a users row as User.__init__ and the column defaults leave it
User(name) == [username |-> name, is_active |-> TRUE, last_login |-> Never]

\* a database in which every user of Users has registered
InitStore ==
    /\ InitContent
    /\ users = [u \in Users |-> User(Handle(u))]
    /\ email = [u \in Users |-> Email(u)]
    /\ password_hash = [u \in Users |-> generate_password_hash(InitialPassword, 1)]

Init ==
    /\ InitStore
    /\ now = 0
    /\ issued = {}
    /\ jwt_build = "float_le"
    /\ requests = <<>>

\* ------------------------------------------------------------ auth routes
\* GET /auth/profile
get_profile(hdr) ==
    IF login_rejects(hdr)
    THEN login_required("get_profile", hdr, None, None, None)
    ELSE Answer(Response("get_profile", hdr, 200, "", None, None, header_user(hdr), <<>>))

\* the unique constraints of users.username and users.email, as the
\* database checks them when a row is inserted or updated (id: the row's own)
username_taken(name) == \E v \in DOMAIN users : users[v].username = name
email_taken_never(text, id) == FALSE
email_taken(text, id) == \E v \in DOMAIN users \ {id} : email[v] = text

\* PUT /auth/profile; email_in = Missing: the body has no 'email'
update_profile(hdr, email_in) ==
    LET cur == header_user(hdr)
        new_email == sanitize_plain_text(email_in)
    IN
    IF login_rejects(hdr)
    THEN login_required("update_profile", hdr, None, None, None)
    ELSE IF email_in = Missing
    THEN Answer(Response("update_profile", hdr, 200, "Profile updated successfully",
                         None, None, cur, <<>>))
    ELSE IF ~validate_email(new_email)
    THEN Answer(Response("update_profile", hdr, 400, "Invalid email",
                         None, None, cur, <<>>))
    ELSE IF email_taken(new_email, cur)
    \* users.email is unique: IntegrityError on commit, rollback
    THEN Answer(Response("update_profile", hdr, 400, "Email already exists",
                         None, None, cur, <<>>))
    ELSE [Answer(Response("update_profile", hdr, 200, "Profile updated successfully",
                          None, None, cur, <<>>))
            EXCEPT !.email = [email EXCEPT ![cur] = new_email]]

\* a login that does not look at the active flag
account_open_always(u) == TRUE

\* login: user.is_active
account_open(u) == users[u].is_active

\* POST /auth/login
login(username_in, password_in) ==
    LET name == sanitize_plain_text(username_in)
        found == {u \in DOMAIN users : users[u].username = name}
        user == CHOOSE u \in found : TRUE
        refuse(status, msg) == Answer(Response("login", NoHeader, status, msg,
                                               None, None, None, <<>>))
    IN
    IF Missing \in {username_in, password_in}
    THEN refuse(400, "Username and password are required")
    ELSE IF found = {} \/ ~check_password(password_hash[user], password_in)
    THEN refuse(401, "Invalid username or password")
    ELSE IF ~account_open(user)
    THEN refuse(401, "Account is deactivated")
    ELSE [Answer(Response("login", NoHeader, 200, "Login successful",
                          None, None, user,
                          <<generate_token(user, NoLifetime, now)>>))
            EXCEPT !.users = [users EXCEPT ![user].last_login = now]]

\* User.generate_token() of the row a request has just inserted
token_of_new_user(id, name, t) ==
    jwt_encode([token_payload(id, t + timedelta(JWT_ACCESS_TOKEN_EXPIRES))
                    EXCEPT !.username = name],
               JWT_SECRET_KEY)

\* POST /auth/register; salt: the salt generate_password_hash draws. The new
\* row takes the next id of the users table.
register(username_in, email_in, password_in, salt) ==
    LET name == sanitize_plain_text(username_in)
        new_email == sanitize_plain_text(email_in)
        id == Cardinality(DOMAIN users) + 1
        refuse(msg) == Answer(Response("register", NoHeader, 400, msg,
                                       None, None, None, <<>>))
    IN
    IF Missing \in {username_in, email_in, password_in}
    THEN refuse("Username, email, and password are required")
    ELSE IF ~validate_username(name)
    THEN refuse("Invalid username")
    ELSE IF ~validate_email(new_email)
    THEN refuse("Invalid email")
    ELSE IF ~validate_password(password_in)
    THEN refuse("Invalid password")
    ELSE IF username_taken(name) \/ email_taken(new_email, id)
    \* IntegrityError on commit, rollback
    THEN refuse("Username or email already exists")
    ELSE [Answer(Response("register", NoHeader, 201, "User registered successfully",
                          None, None, id, <<token_of_new_user(id, name, now)>>))
            EXCEPT !.users = (id :> User(name)) @@ users,
                   !.email = (id :> new_email) @@ email,
                   !.password_hash = (id :> set_password(password_in, salt))
                                     @@ password_hash]

\* POST /auth/change-password; salt: the salt generate_password_hash draws
change_password(hdr, current_password, new_password, salt) ==
    LET cur == header_user(hdr) IN
    IF login_rejects(hdr)
    THEN login_required("change_password", hdr, None, None, None)
    ELSE IF current_password = Missing \/ new_password = Missing
    THEN Answer(Response("change_password", hdr, 400,
                         "Current password and new password are required",
                         None, None, cur, <<>>))
    ELSE IF ~check_password(password_hash[cur], current_password)
    THEN Answer(Response("change_password", hdr, 401, "Current password is incorrect",
                         None, None, cur, <<>>))
    ELSE IF ~validate_password(new_password)
    THEN Answer(Response("change_password", hdr, 400, "Password is not valid",
                         None, None, cur, <<>>))
    ELSE [Answer(Response("change_password", hdr, 200, "Password changed successfully",
                          None, None, cur, <<>>))
            EXCEPT !.password_hash =
                       [password_hash EXCEPT ![cur] = set_password(new_password, salt)]]

\* POST /auth/logout
logout(hdr) ==
    IF login_rejects(hdr)
    THEN login_required("logout", hdr, None, None, None)
    ELSE Answer(Response("logout", hdr, 200, "Logout successful",
                         None, None, header_user(hdr), <<>>))

\* ---------------------------------------------------------- course routes
\* a courses row; Course.__init__ stores code.upper()
Course(id, code) == [id |-> id, code |-> upper(code)]

\* Course.query.get(id)
CourseExists(course_id) == \E c \in courses : c.id = course_id

\* a lookup that never finds a course
courses_with_code_none(code) == {}

\* Course.query.filter_by(code=...)
courses_with_code(code) == {c \in courses : c.code = code}

\* POST /courses; name_given: the body has a non-empty 'name'
add_course(hdr, code_in, name_given) ==
    LET cur == header_user(hdr)
        code == sanitize_plain_text(code_in)
    IN
    IF login_rejects(hdr)
    THEN login_required("add_course", hdr, None, None, None)
    ELSE IF code_in = Missing \/ code_in = <<>>
    THEN Answer(Response("add_course", hdr, 400, "Course code is required",
                         None, None, None, <<>>))
    ELSE IF ~name_given
    THEN Answer(Response("add_course", hdr, 400, "Course name is required",
                         None, None, None, <<>>))
    ELSE IF ~validate_course_code(code)
    THEN Answer(Response("add_course", hdr, 400, "Course code is not valid",
                         None, None, None, <<>>))
    ELSE IF courses_with_code(upper(code)) # {}
    THEN Answer(Response("add_course", hdr, 200, "Course available", None, None, None,
                         <<CHOOSE c \in courses_with_code(upper(code)) : TRUE>>))
    ELSE [Answer(Response("add_course", hdr, 200, "Course available", None, None, None,
                          <<Course(next_course_id, upper(code))>>))
            EXCEPT !.courses = courses \cup {Course(next_course_id, upper(code))},
                   !.next_course_id = next_course_id + 1]

\* a delete that empties the courses table
courses_without_any(course_id) == {}

\* db.session.delete(course): the courses table without that row
courses_without(course_id) == {c \in courses : c.id # course_id}

\* DELETE /courses/<course_id>
delete_course(hdr, course_id) ==
    IF login_rejects(hdr)
    THEN login_required("delete_course", hdr, None, None, None)
    ELSE IF ~CourseExists(course_id)
    THEN Answer(Response("delete_course", hdr, 404, "Resource not found",
                         None, None, None, <<>>))
    ELSE [Answer(Response("delete_course", hdr, 200, "Course deleted",
                          None, None, None, <<>>))
            EXCEPT !.courses = courses_without(course_id)]

\* ------------------------------------------------------------ post routes
\* get_posts with the membership test lost: any signed-in user sees group posts
post_accessible_any_user(p, current_user) ==
    IF p.group_id = None THEN TRUE
    ELSE current_user # None /\ GroupExists(p.group_id)

\* get_posts: the test applied to each stored post
post_accessible(p, current_user) ==
    IF p.group_id = None THEN TRUE
    ELSE IF current_user # None /\ GroupExists(p.group_id)
         THEN is_member(p.group_id, current_user)
         ELSE FALSE

\* a query that returns the newest row first
all_posts_newest_first == Reverse(posts)

\* Post.query.all(): the rows of the posts table as it returns them
all_posts == posts

\* GET /posts
get_posts(hdr) ==
    LET current_user == header_user(hdr)
        accessible_posts == SelectSeq(all_posts, LAMBDA p : post_accessible(p, current_user))
    IN  Answer(Response("get_posts", hdr, 200, "", None, None, None,
                        PostIdsOf(accessible_posts)))

\* add_post with the membership test lost
may_post_in_anyone(gid, uid) == TRUE

\* add_post: the membership test on a given group_id
may_post_in(gid, uid) == is_member(gid, uid)

\* POST /posts; group_id = None: the body names no group
add_post(hdr, group_id) ==
    LET cur == header_user(hdr) IN
    IF login_rejects(hdr)
    THEN login_required("add_post", hdr, group_id, None, None)
    ELSE IF group_id # None /\ ~GroupExists(group_id)
    THEN Answer(Response("add_post", hdr, 404, "Group not found",
                         group_id, None, None, <<>>))
    ELSE IF group_id # None /\ ~may_post_in(group_id, cur)
    THEN Answer(Response("add_post", hdr, 403,
                         "You must be a member of the group to post in it",
                         group_id, None, None, <<>>))
    ELSE [Answer(Response("add_post", hdr, 201, "", group_id, next_post_id, None, <<>>))
            EXCEPT !.posts = Append(posts, Post(next_post_id, cur, group_id)),
                   !.next_post_id = next_post_id + 1]

\* delete_post: the ownership test
owns_post(post, uid) == post.user_id = uid

\* DELETE /posts/<post_id>
delete_post(hdr, post_id) ==
    LET cur == header_user(hdr) IN
    IF login_rejects(hdr)
    THEN login_required("delete_post", hdr, None, post_id, None)
    ELSE IF ~PostExists(post_id)
    THEN Answer(Response("delete_post", hdr, 404, "Resource not found",
                         None, post_id, None, <<>>))
    ELSE IF ~owns_post(PostOf(post_id), cur)
    THEN Answer(Response("delete_post", hdr, 403, "Unauthorized to delete this post",
                         None, post_id, None, <<>>))
    ELSE IF CommentsOf(post_id) # {}
    \* the delete sets comments.post_id to NULL, the column is NOT NULL:
    \* IntegrityError, and the handler has no try block
    THEN Answer(Response("delete_post", hdr, 500, "Internal server error",
                         None, post_id, None, <<>>))
    ELSE [Answer(Response("delete_post", hdr, 200, "Post deleted",
                          None, post_id, None, <<>>))
            EXCEPT !.posts = SelectSeq(posts, LAMBDA p : p.id # post_id)]

\* GET /posts/<post_id>/comments
get_post_comments(post_id) ==
    IF ~PostExists(post_id)
    THEN Answer(Response("get_post_comments", NoHeader, 404, "Resource not found",
                         None, post_id, None, <<>>))
    ELSE Answer(Response("get_post_comments", NoHeader, 200, "",
                         None, post_id, None, <<>>))

\* POST /comments
add_comment(hdr, post_id) ==
    LET cur == header_user(hdr) IN
    IF login_rejects(hdr)
    THEN login_required("add_comment", hdr, None, post_id, None)
    ELSE IF ~PostExists(post_id)
    \* get_or_404 aborts inside the try block and "except Exception" turns
    \* the NotFound into the handler's 500
    THEN Answer(Response("add_comment", hdr, 500, "Failed to add comment",
                         None, post_id, None, <<>>))
    ELSE [Answer(Response("add_comment", hdr, 201, "Comment added",
                          None, post_id, None, <<>>))
            EXCEPT !.comments = comments \cup {Comment(next_comment_id, cur, post_id)},
                   !.next_comment_id = next_comment_id + 1]

\* ------------------------------------------------------------ user routes
RECURSIVE AllUsersPosts(_)
AllUsersPosts(n) ==
    IF n = 0 THEN <<>> ELSE AllUsersPosts(n - 1) \o PostsOfUser(n)

\* GET /users
get_users ==
    Answer(Response("get_users", NoHeader, 200, "", None, None, None,
                    PostIdsOf(AllUsersPosts(NumUsers))))

\* GET /users/<user_id>
get_user(user_id) ==
    IF ~UserExists(user_id)
    THEN Answer(Response("get_user", NoHeader, 404, "Resource not found",
                         None, None, user_id, <<>>))
    ELSE Answer(Response("get_user", NoHeader, 200, "", None, None, user_id,
                         PostIdsOf(PostsOfUser(user_id))))

\* GET /users/<user_id>/posts
get_user_posts(user_id) ==
    IF ~UserExists(user_id)
    THEN Answer(Response("get_user_posts", NoHeader, 404, "Resource not found",
                         None, None, user_id, <<>>))
    ELSE Answer(Response("get_user_posts", NoHeader, 200, "", None, None, user_id,
                         PostIdsOf(PostsOfUser(user_id))))

\* ----------------------------------------------------------- group routes
\* POST /groups
create_group(hdr, name) ==
    LET cur == header_user(hdr) IN
    IF login_rejects(hdr)
    THEN login_required("create_group", hdr, None, None, None)
    ELSE [Answer(Response("create_group", hdr, 201, "Group created successfully",
                          next_group_id, None, None, <<>>))
            EXCEPT !.groups = (next_group_id :> Group(cur, name)) @@ groups,
                   !.group_members = group_members (+) SetToBag({<<cur, next_group_id>>}),
                   !.next_group_id = next_group_id + 1]

\* update_group and delete_group testing membership instead of the creator
may_update_group_member(gid, uid) == is_member(gid, uid)

\* update_group: only the creator may update
may_update_group(gid, uid) == groups[gid].creator_id = uid

\* an update that hands the group to nobody
renamed_and_disowned(group, name) == [creator_id |-> None, name |-> name]

\* update_group: group.name = name (creator_id is not assigned)
renamed(group, name) == [group EXCEPT !.name = name]

\* PUT /groups/<group_id>
update_group(hdr, group_id, name) ==
    LET cur == header_user(hdr) IN
    IF login_rejects(hdr)
    THEN login_required("update_group", hdr, group_id, None, None)
    ELSE IF ~GroupExists(group_id)
    \* get_or_404 inside try: "except Exception" answers 500
    THEN Answer(Response("update_group", hdr, 500, "Failed to update group",
                         group_id, None, None, <<>>))
    ELSE IF ~may_update_group(group_id, cur)
    THEN Answer(Response("update_group", hdr, 403,
                         "Only the group creator can update the group",
                         group_id, None, None, <<>>))
    ELSE [Answer(Response("update_group", hdr, 200, "Group updated successfully",
                          group_id, None, None, <<>>))
            EXCEPT !.groups = [groups EXCEPT ![group_id] = renamed(@, name)]]

\* posts.group_id references groups.id (posts_group_id_fkey, no ON DELETE)
GroupReferenced(gid) == \E i \in 1..Len(posts) : posts[i].group_id = gid

\* delete_group: only the creator may delete
may_delete_group(gid, uid) == groups[gid].creator_id = uid

\* DELETE /groups/<group_id>
delete_group(hdr, group_id) ==
    LET cur == header_user(hdr) IN
    IF login_rejects(hdr)
    THEN login_required("delete_group", hdr, group_id, None, None)
    ELSE IF ~GroupExists(group_id)
    THEN Answer(Response("delete_group", hdr, 500, "Failed to delete group",
                         group_id, None, None, <<>>))
    ELSE IF ~may_delete_group(group_id, cur)
    THEN Answer(Response("delete_group", hdr, 403,
                         "Only the group creator can delete the group",
                         group_id, None, None, <<>>))
    ELSE IF GroupReferenced(group_id)
    \* the foreign key refuses the DELETE: IntegrityError, rollback, 500
    THEN Answer(Response("delete_group", hdr, 500, "Failed to delete group",
                         group_id, None, None, <<>>))
    ELSE [Answer(Response("delete_group", hdr, 200, "Group deleted successfully",
                          group_id, None, None, <<>>))
            EXCEPT !.groups = [g \in DOMAIN groups \ {group_id} |-> groups[g]],
                   !.group_members = group_members (-) MemberRows(group_id)]

\* add_group_member letting any member add a user the body names
may_add_other_member(gid, uid) == is_member(gid, uid)

\* add_group_member: only the creator may add a user the body names
may_add_other(gid, uid) == groups[gid].creator_id = uid

\* add_group_member with the duplicate test lost
already_member_unchecked(gid, uid) == FALSE

\* add_group_member: the test that guards the append
already_member(gid, uid) == is_member(gid, uid)

\* POST /groups/<group_id>/members; user_id = None: the body names no user
add_group_member(hdr, group_id, user_id) ==
    LET cur == header_user(hdr)
        user_to_add == IF user_id # None THEN user_id ELSE cur
    IN
    IF login_rejects(hdr)
    THEN login_required("add_group_member", hdr, group_id, None, user_id)
    ELSE IF ~GroupExists(group_id)
    THEN Answer(Response("add_group_member", hdr, 500, "Failed to add member",
                         group_id, None, user_id, <<>>))
    ELSE IF user_id # None /\ ~may_add_other(group_id, cur)
    THEN Answer(Response("add_group_member", hdr, 403,
                         "Only the group creator can add other members",
                         group_id, None, user_id, <<>>))
    ELSE IF user_id # None /\ ~UserExists(user_id)
    THEN Answer(Response("add_group_member", hdr, 500, "Failed to add member",
                         group_id, None, user_id, <<>>))
    ELSE IF already_member(group_id, user_to_add)
    THEN Answer(Response("add_group_member", hdr, 400,
                         "User is already a member of this group",
                         group_id, None, user_id, <<>>))
    ELSE IF ~PrimaryKeyFree(user_to_add, group_id)
    \* IntegrityError on commit: rollback, 500
    THEN Answer(Response("add_group_member", hdr, 500, "Failed to add member",
                         group_id, None, user_id, <<>>))
    ELSE [Answer(Response("add_group_member", hdr, 200, "Member added successfully",
                          group_id, None, user_id, <<>>))
            EXCEPT !.group_members =
                       group_members (+) SetToBag({<<user_to_add, group_id>>})]

\* remove_group_member letting any member remove anyone
may_remove_any_member(group, cur, user_id) ==
    ~(cur # group.creator_id /\ cur # user_id) \/ cur \in Users

\* remove_group_member: the permission test
may_remove(group, cur, user_id) ==
    ~(cur # group.creator_id /\ cur # user_id)

\* remove_group_member with the count compared off by one
creator_must_stay_off_by_one(gid, user_id) ==
    user_id = groups[gid].creator_id /\ members_count(gid) > 2

\* remove_group_member: the creator may not leave while others are members
creator_must_stay(gid, user_id) ==
    user_id = groups[gid].creator_id /\ members_count(gid) > 1

\* group.members.remove(user_to_remove)
RemoveRow(uid, gid) ==
    [r \in BagToSet(group_members) \ {<<uid, gid>>} |-> group_members[r]]

\* DELETE /groups/<group_id>/members/<user_id>
remove_group_member(hdr, group_id, user_id) ==
    LET cur == header_user(hdr) IN
    IF login_rejects(hdr)
    THEN login_required("remove_group_member", hdr, group_id, None, user_id)
    ELSE IF ~GroupExists(group_id) \/ ~UserExists(user_id)
    THEN Answer(Response("remove_group_member", hdr, 500, "Failed to remove member",
                         group_id, None, user_id, <<>>))
    ELSE IF ~may_remove(groups[group_id], cur, user_id)
    THEN Answer(Response("remove_group_member", hdr, 403,
                         "You can only remove yourself or you must be the group creator",
                         group_id, None, user_id, <<>>))
    ELSE IF creator_must_stay(group_id, user_id)
    THEN Answer(Response("remove_group_member", hdr, 400,
                         "Group creator cannot leave while other members exist",
                         group_id, None, user_id, <<>>))
    ELSE IF ~is_member(group_id, user_id)
    THEN Answer(Response("remove_group_member", hdr, 400,
                         "User is not a member of this group",
                         group_id, None, user_id, <<>>))
    ELSE [Answer(Response("remove_group_member", hdr, 200, "Member removed successfully",
                          group_id, None, user_id, <<>>))
            EXCEPT !.group_members = RemoveRow(user_id, group_id)]

\* get_group_posts: Post.query.filter_by(group_id=...).order_by(created_at.desc())
GroupPosts(gid) == Reverse(SelectSeq(posts, LAMBDA p : p.group_id = gid))

\* get_group_posts testing the creator instead of the membership
may_read_group_creator_only(gid, uid) == groups[gid].creator_id = uid

\* get_group_posts: only members may read
may_read_group(gid, uid) == is_member(gid, uid)

\* GET /groups/<group_id>/posts
get_group_posts(hdr, group_id) ==
    LET cur == header_user(hdr) IN
    IF login_rejects(hdr)
    THEN login_required("get_group_posts", hdr, group_id, None, None)
    ELSE IF ~GroupExists(group_id)
    THEN Answer(Response("get_group_posts", hdr, 500, "Failed to fetch group posts",
                         group_id, None, None, <<>>))
    ELSE IF ~may_read_group(group_id, cur)
    THEN Answer(Response("get_group_posts", hdr, 403,
                         "You must be a member of this group to view its posts",
                         group_id, None, None, <<>>))
    ELSE Answer(Response("get_group_posts", hdr, 200, "",
                         group_id, None, None, PostIdsOf(GroupPosts(group_id))))

\* ------------------------------------------------------------ the system
\* One request served: the store becomes the one the handler leaves.  The id
\* sequences stop at the bounds.
Serve(o) ==
    /\ o.next_group_id <= MaxGroups + 1
    /\ o.next_post_id <= MaxPosts + 1
    /\ o.next_comment_id <= MaxComments + 1
    /\ groups' = o.groups
    /\ group_members' = o.group_members
    /\ posts' = o.posts
    /\ comments' = o.comments
    /\ next_group_id' = o.next_group_id
    /\ next_post_id' = o.next_post_id
    /\ next_comment_id' = o.next_comment_id
    /\ o.next_course_id <= MaxCourses + 1
    /\ courses' = o.courses
    /\ next_course_id' = o.next_course_id
    /\ Cardinality(DOMAIN o.users) <= NumUsers
    /\ users' = o.users
    /\ email' = o.email
    /\ password_hash' = o.password_hash
    /\ UNCHANGED <<now, issued, jwt_build, requests>>

Next ==
    \/ \E hdr \in Headers : Serve(get_posts(hdr))
    \/ \E hdr \in Headers, gid \in {None} \cup GroupIds : Serve(add_post(hdr, gid))
    \/ \E hdr \in Headers, pid \in PostIds : Serve(delete_post(hdr, pid))
    \/ \E pid \in PostIds : Serve(get_post_comments(pid))
    \/ \E hdr \in Headers, pid \in PostIds : Serve(add_comment(hdr, pid))
    \/ Serve(get_users)
    \/ \E uid \in UserIdInputs : Serve(get_user(uid))
    \/ \E uid \in UserIdInputs : Serve(get_user_posts(uid))
    \/ \E hdr \in Headers, name \in Names : Serve(create_group(hdr, name))
    \/ \E hdr \in Headers, gid \in GroupIds, name \in Names :
           Serve(update_group(hdr, gid, name))
    \/ \E hdr \in Headers, gid \in GroupIds : Serve(delete_group(hdr, gid))
    \/ \E hdr \in Headers, gid \in GroupIds, uid \in {None} \cup UserIdInputs :
           Serve(add_group_member(hdr, gid, uid))
    \/ \E hdr \in Headers, gid \in GroupIds, uid \in UserIdInputs :
           Serve(remove_group_member(hdr, gid, uid))
    \/ \E hdr \in Headers, gid \in GroupIds : Serve(get_group_posts(hdr, gid))

Spec == Init /\ [][Next]_vars

\* The full system is the product of three families of routes that share the
\* tables.  Each family is also a specification of its own, in which the
\* tables the family never writes stay as Init leaves them.

\* The group routes: the requests that write the groups and group_members
\* tables.  No post and no comment is ever stored; of these handlers only
\* delete_group reads the posts table (the foreign key).
NextGroups ==
    \/ \E hdr \in Headers, name \in Names : Serve(create_group(hdr, name))
    \/ \E hdr \in Headers, gid \in GroupIds, name \in Names :
           Serve(update_group(hdr, gid, name))
    \/ \E hdr \in Headers, gid \in GroupIds : Serve(delete_group(hdr, gid))
    \/ \E hdr \in Headers, gid \in GroupIds, uid \in {None} \cup UserIdInputs :
           Serve(add_group_member(hdr, gid, uid))
    \/ \E hdr \in Headers, gid \in GroupIds, uid \in UserIdInputs :
           Serve(remove_group_member(hdr, gid, uid))

SpecGroups == Init /\ [][NextGroups]_vars

\* Posts and their visibility: groups are created and joined and left, posts
\* are created in them or in public, and every route that returns posts reads.
NextPosts ==
    \/ \E hdr \in Headers : Serve(get_posts(hdr))
    \/ \E hdr \in Headers, gid \in {None} \cup GroupIds : Serve(add_post(hdr, gid))
    \/ Serve(get_users)
    \/ \E uid \in UserIdInputs : Serve(get_user(uid))
    \/ \E uid \in UserIdInputs : Serve(get_user_posts(uid))
    \/ \E hdr \in Headers : Serve(create_group(hdr, "n1"))
    \/ \E hdr \in Headers, gid \in GroupIds, uid \in {None} \cup UserIdInputs :
           Serve(add_group_member(hdr, gid, uid))
    \/ \E hdr \in Headers, gid \in GroupIds, uid \in UserIdInputs :
           Serve(remove_group_member(hdr, gid, uid))
    \/ \E hdr \in Headers, gid \in GroupIds : Serve(get_group_posts(hdr, gid))

SpecPosts == Init /\ [][NextPosts]_vars

\* Posts and their comments: public posts are created, commented and deleted.
NextComments ==
    \/ \E hdr \in Headers : Serve(add_post(hdr, None))
    \/ \E hdr \in Headers, pid \in PostIds : Serve(delete_post(hdr, pid))
    \/ \E pid \in PostIds : Serve(get_post_comments(pid))
    \/ \E hdr \in Headers, pid \in PostIds : Serve(add_comment(hdr, pid))

SpecComments == Init /\ [][NextComments]_vars

\* Tokens over time: the clock advances, tokens are issued (register and
\* login call generate_token(), a caller may pass expires_in), and issued
\* tokens are presented to a protected route.
Day == timedelta(JWT_ACCESS_TOKEN_EXPIRES)

Tick ==
    /\ now % Day < MaxTicks
    /\ now' = now + 1
    /\ UNCHANGED <<store, issued, jwt_build, requests>>

\* nothing is observed for a day
Sleep ==
    /\ now < Day
    /\ now' = now + Day
    /\ UNCHANGED <<store, issued, jwt_build, requests>>

IssueToken(u, expires_in) ==
    /\ Cardinality(issued) < MaxIssued
    /\ issued' = issued \cup {[token |-> generate_token(u, expires_in, now),
                                t0 |-> now, expires_in |-> expires_in, user_id |-> u]}
    /\ UNCHANGED <<store, now, jwt_build, requests>>

InitTokens ==
    /\ InitStore
    /\ now = 0
    /\ issued = {}
    /\ jwt_build \in Builds
    /\ requests = <<>>

NextTokens ==
    \/ Tick
    \/ Sleep
    \/ \E u \in Users, e \in Lifetimes : IssueToken(u, e)
    \/ \E r \in issued, p \in Prefixes :
           Serve(get_profile(credential(RawHeader(TRUE, p, r.token), now)))

SpecTokens == InitTokens /\ [][NextTokens]_vars

\* Credentials: User.set_password is called on its own, as User.__init__
\* calls it, and by change_password.
SetPassword(u, password, salt) ==
    /\ password_hash' = [password_hash EXCEPT ![u] = set_password(password, salt)]
    /\ UNCHANGED <<groups, group_members, posts, comments,
                   next_group_id, next_post_id, next_comment_id,
                   courses, next_course_id, users, email, now, issued, jwt_build,
                   requests>>

NextCredentials ==
    \/ \E u \in Users, p \in PasswordInputs, salt \in Salts : SetPassword(u, p, salt)
    \/ \E hdr \in Headers, c \in {Missing} \cup PasswordInputs,
          n \in {Missing} \cup PasswordInputs, salt \in Salts :
           Serve(change_password(hdr, c, n, salt))

SpecCredentials == Init /\ [][NextCredentials]_vars

\* Every route behind login_required that writes, with one user signed in
\* next to the requests that carry no header or a refused token.
CourseIds == 1..MaxCourses
GateHeaders == {NoHeader, BadToken, [kind |-> "token", user_id |-> 1, valid |-> TRUE]}

NextGate ==
    \/ \E hdr \in GateHeaders, gid \in {None} \cup GroupIds : Serve(add_post(hdr, gid))
    \/ \E hdr \in GateHeaders, pid \in PostIds : Serve(delete_post(hdr, pid))
    \/ \E hdr \in GateHeaders, pid \in PostIds : Serve(add_comment(hdr, pid))
    \/ \E hdr \in GateHeaders : Serve(add_course(hdr, <<"c", "s", "1">>, TRUE))
    \/ \E hdr \in GateHeaders, cid \in CourseIds : Serve(delete_course(hdr, cid))
    \/ \E hdr \in GateHeaders : Serve(create_group(hdr, "n1"))
    \/ \E hdr \in GateHeaders, gid \in GroupIds : Serve(update_group(hdr, gid, "n2"))
    \/ \E hdr \in GateHeaders, gid \in GroupIds : Serve(delete_group(hdr, gid))
    \/ \E hdr \in GateHeaders, gid \in GroupIds : Serve(add_group_member(hdr, gid, None))
    \/ \E hdr \in GateHeaders, gid \in GroupIds : Serve(remove_group_member(hdr, gid, 1))
    \/ \E hdr \in GateHeaders : Serve(update_profile(hdr, <<" ", "w", "@", "x", ".", "c", "a">>))
    \/ \E hdr \in GateHeaders :
           Serve(change_password(hdr, InitialPassword,
                                 <<"W", "s", "a", "b", "c", "x", "2", "1">>, 2))
    \/ \E hdr \in GateHeaders : Serve(logout(hdr))

SpecGate == Init /\ [][NextGate]_vars

\* Registration: the users table starts empty and fills by POST
\* /auth/register; profile updates change the stored emails.
InitRegister ==
    /\ InitContent
    /\ users = <<>>
    /\ email = <<>>
    /\ password_hash = <<>>
    /\ now = 0
    /\ issued = {}
    /\ jwt_build = "float_le"
    /\ requests = <<>>

RegisterPasswords == {Missing, InitialPassword, <<"a", "b", "c">>}

NextRegister ==
    \/ \E n \in UsernameInputs, e \in EmailInputs, p \in RegisterPasswords,
          salt \in Salts :
           Serve(register(n, e, p, salt))
    \/ \E hdr \in Headers, e \in {Missing} \cup EmailInputs :
           Serve(update_profile(hdr, e))
    \/ \E hdr \in Headers : Serve(get_profile(hdr))

SpecRegister == InitRegister /\ [][NextRegister]_vars

\* Sessions: tokens are issued, time passes, and their holders log out and
\* change their passwords.
SessionUsers == {1, 2}
SessionLifetimes == {NoLifetime, 1}
Bearer(token) == credential(RawHeader(TRUE, "Bearer ", token), now)

NextSessions ==
    \/ Tick
    \/ Sleep
    \/ \E u \in SessionUsers, e \in SessionLifetimes : IssueToken(u, e)
    \/ \E r \in issued : Serve(logout(Bearer(r.token)))
    \/ \E r \in issued, c \in {InitialPassword, <<"a", "b", "c">>}, salt \in Salts :
           Serve(change_password(Bearer(r.token), c,
                                 <<"W", "s", "a", "b", "c", "x", "2", "1">>, salt))
    \/ \E r \in issued : Serve(get_profile(Bearer(r.token)))

SpecSessions == Init /\ [][NextSessions]_vars

\* Visibility: two users create and rename groups, join and leave them, post in them
\* and in public, comment, delete their posts and read the listings.
Readers == {NoHeader} \cup {[kind |-> "token", user_id |-> u, valid |-> TRUE] : u \in {1, 2}}

NextVisibility ==
    \/ \E hdr \in Readers : Serve(create_group(hdr, "n1"))
    \/ \E hdr \in Readers, gid \in GroupIds : Serve(update_group(hdr, gid, "n2"))
    \/ \E hdr \in Readers, gid \in GroupIds : Serve(add_group_member(hdr, gid, None))
    \/ \E hdr \in Readers, gid \in GroupIds, uid \in {1, 2} :
           Serve(remove_group_member(hdr, gid, uid))
    \/ \E hdr \in Readers, gid \in {None} \cup GroupIds : Serve(add_post(hdr, gid))
    \/ \E hdr \in Readers, pid \in PostIds : Serve(delete_post(hdr, pid))
    \/ \E hdr \in Readers, pid \in PostIds : Serve(add_comment(hdr, pid))
    \/ \E hdr \in Readers : Serve(get_posts(hdr))
    \/ \E hdr \in Readers, gid \in GroupIds : Serve(get_group_posts(hdr, gid))

SpecVisibility == Init /\ [][NextVisibility]_vars

\* Courses: every user adds and deletes courses, next to public posts.
NextCourses ==
    \/ \E hdr \in Headers, code \in {Missing} \cup CodeInputs, name_given \in BOOLEAN :
           Serve(add_course(hdr, code, name_given))
    \/ \E hdr \in Headers, cid \in CourseIds : Serve(delete_course(hdr, cid))
    \/ \E hdr \in Headers : Serve(add_post(hdr, None))

SpecCourses == Init /\ [][NextCourses]_vars

\* Concurrent requests: add_group_member and remove_group_member served one
\* statement at a time.  Each query and each commit is one step; the steps
\* of the requests in flight interleave.
Request(op, cur, group_id, user_id) ==
    [op |-> op, cur |-> cur, group_id |-> group_id, user_id |-> user_id,
     pc |-> "begin", status |-> None, msg |-> ""]

\* the tables no step of the two handlers writes
tables_but_members ==
    <<groups, posts, comments, next_group_id, next_post_id, next_comment_id,
      courses, next_course_id, users, email, password_hash>>

\* a request arrives (its token has passed login_required as user cur)
Submit(op, cur, group_id, user_id) ==
    /\ Len(requests) < MaxInflight
    /\ requests' = Append(requests, Request(op, cur, group_id, user_id))
    /\ UNCHANGED <<store, now, issued, jwt_build>>

\* the request moves on to its next statement, the store as it is
Goto(i, pc) ==
    /\ requests' = [requests EXCEPT ![i].pc = pc]
    /\ UNCHANGED <<store, now, issued, jwt_build>>

\* the request returns without a commit (or after a rollback)
Return(i, status, msg) ==
    /\ requests' = [requests EXCEPT ![i].pc = "done", ![i].status = status,
                                    ![i].msg = msg]
    /\ UNCHANGED <<store, now, issued, jwt_build>>

\* db.session.commit() succeeds: the membership rows are written
Commit(i, rows, msg) ==
    /\ group_members' = rows
    /\ requests' = [requests EXCEPT ![i].pc = "done", ![i].status = 200,
                                    ![i].msg = msg]
    /\ UNCHANGED <<tables_but_members, now, issued, jwt_build>>

\* the user an add_group_member request adds
user_to_add(r) == IF r.user_id # None THEN r.user_id ELSE r.cur

\* add_group_member: get_or_404 of the group, the creator test, get_or_404
\* of a named user
AddBegin(i) ==
    LET r == requests[i] IN
    /\ r.op = "add" /\ r.pc = "begin"
    /\ IF ~GroupExists(r.group_id)
       THEN Return(i, 500, "Failed to add member")
       ELSE IF r.user_id # None /\ ~may_add_other(r.group_id, r.cur)
       THEN Return(i, 403, "Only the group creator can add other members")
       ELSE IF r.user_id # None /\ ~UserExists(r.user_id)
       THEN Return(i, 500, "Failed to add member")
       ELSE Goto(i, "check")

\* add_group_member: group.members.filter_by(id=...).first()
AddCheck(i) ==
    LET r == requests[i] IN
    /\ r.op = "add" /\ r.pc = "check"
    /\ IF already_member(r.group_id, user_to_add(r))
       THEN Return(i, 400, "User is already a member of this group")
       ELSE Goto(i, "commit")

\* add_group_member: group.members.append(...); db.session.commit().  The
\* INSERT of a row whose primary key is taken raises IntegrityError, which
\* "except Exception" answers with a rollback and 500.
AddCommit(i) ==
    LET r == requests[i] IN
    /\ r.op = "add" /\ r.pc = "commit"
    /\ IF ~PrimaryKeyFree(user_to_add(r), r.group_id)
       THEN Return(i, 500, "Failed to add member")
       ELSE Commit(i, group_members (+) SetToBag({<<user_to_add(r), r.group_id>>}),
                   "Member added successfully")

\* remove_group_member: the two get_or_404 and the permission test
RemoveBegin(i) ==
    LET r == requests[i] IN
    /\ r.op = "remove" /\ r.pc = "begin"
    /\ IF ~GroupExists(r.group_id) \/ ~UserExists(r.user_id)
       THEN Return(i, 500, "Failed to remove member")
       ELSE IF ~may_remove(groups[r.group_id], r.cur, r.user_id)
       THEN Return(i, 403,
                   "You can only remove yourself or you must be the group creator")
       ELSE Goto(i, "count")

\* remove_group_member: group.members.count() > 1 for the creator
RemoveCount(i) ==
    LET r == requests[i] IN
    /\ r.op = "remove" /\ r.pc = "count"
    /\ IF creator_must_stay(r.group_id, r.user_id)
       THEN Return(i, 400, "Group creator cannot leave while other members exist")
       ELSE Goto(i, "check")

\* remove_group_member: group.members.filter_by(id=user_id).first()
RemoveCheck(i) ==
    LET r == requests[i] IN
    /\ r.op = "remove" /\ r.pc = "check"
    /\ IF ~is_member(r.group_id, r.user_id)
       THEN Return(i, 400, "User is not a member of this group")
       ELSE Goto(i, "commit")

\* remove_group_member: group.members.remove(...); db.session.commit().  A
\* DELETE that finds its row gone matches no row: the session either raises
\* StaleDataError (answered 500) or lets it pass, as the driver's row count
\* support decides.
RemoveCommit(i) ==
    LET r == requests[i] IN
    /\ r.op = "remove" /\ r.pc = "commit"
    /\ IF ~is_member(r.group_id, r.user_id)
       THEN \/ Return(i, 500, "Failed to remove member")
            \/ Return(i, 200, "Member removed successfully")
       ELSE Commit(i, RemoveRow(r.user_id, r.group_id), "Member removed successfully")

\* user 1 creates groups; then the creator's leaving, users joining and the
\* creator adding user 2 arrive at any time
NextRace ==
    \/ /\ requests = <<>>
       /\ Serve(create_group([kind |-> "token", user_id |-> 1, valid |-> TRUE], "n1"))
    \/ \E gid \in GroupIds : Submit("remove", 1, gid, 1)
    \/ \E gid \in GroupIds, cur \in {2, 3} : Submit("add", cur, gid, None)
    \/ \E gid \in GroupIds : Submit("add", 1, gid, 2)
    \/ \E i \in DOMAIN requests : AddBegin(i)
    \/ \E i \in DOMAIN requests : AddCheck(i)
    \/ \E i \in DOMAIN requests : AddCommit(i)
    \/ \E i \in DOMAIN requests : RemoveBegin(i)
    \/ \E i \in DOMAIN requests : RemoveCount(i)
    \/ \E i \in DOMAIN requests : RemoveCheck(i)
    \/ \E i \in DOMAIN requests : RemoveCommit(i)

SpecRace == Init /\ [][NextRace]_vars

\* add_post served one statement at a time
\* add_post with a group_id: Group.query.get(group_id)
PostBegin(i) ==
    LET r == requests[i] IN
    /\ r.op = "post" /\ r.pc = "begin"
    /\ IF ~GroupExists(r.group_id)
       THEN Return(i, 404, "Group not found")
       ELSE Goto(i, "check")

\* add_post: group.members.filter_by(id=g.current_user.id).first()
PostCheck(i) ==
    LET r == requests[i] IN
    /\ r.op = "post" /\ r.pc = "check"
    /\ IF ~may_post_in(r.group_id, r.cur)
       THEN Return(i, 403, "You must be a member of the group to post in it")
       ELSE Goto(i, "commit")

\* add_post: db.session.add(post); db.session.commit().  posts.group_id
\* refers to groups only; nothing ties the row to group_members.
PostCommit(i) ==
    LET r == requests[i] IN
    /\ r.op = "post" /\ r.pc = "commit"
    /\ next_post_id <= MaxPosts
    /\ posts' = Append(posts, Post(next_post_id, r.cur, r.group_id))
    /\ next_post_id' = next_post_id + 1
    /\ requests' = [requests EXCEPT ![i].pc = "done", ![i].status = 201]
    /\ UNCHANGED <<groups, group_members, comments, next_group_id, next_comment_id,
                   courses, next_course_id, users, email, password_hash,
                   now, issued, jwt_build>>

\* user 1 creates groups and user 2 joins them; then user 2's posts in a
\* group and the removals of user 2 (by user 2, by the creator) arrive at
\* any time
NextPostRace ==
    \/ /\ requests = <<>>
       /\ Serve(create_group([kind |-> "token", user_id |-> 1, valid |-> TRUE], "n1"))
    \/ /\ requests = <<>>
       /\ \E gid \in GroupIds :
              Serve(add_group_member([kind |-> "token", user_id |-> 2, valid |-> TRUE],
                                     gid, None))
    \/ \E gid \in GroupIds : Submit("post", 2, gid, None)
    \/ \E gid \in GroupIds, cur \in {1, 2} : Submit("remove", cur, gid, 2)
    \/ \E i \in DOMAIN requests : PostBegin(i)
    \/ \E i \in DOMAIN requests : PostCheck(i)
    \/ \E i \in DOMAIN requests : PostCommit(i)
    \/ \E i \in DOMAIN requests : RemoveBegin(i)
    \/ \E i \in DOMAIN requests : RemoveCount(i)
    \/ \E i \in DOMAIN requests : RemoveCheck(i)
    \/ \E i \in DOMAIN requests : RemoveCommit(i)

SpecPostRace == Init /\ [][NextPostRace]_vars

\* Logins: users log in as time passes, use the tokens they were given and
\* change their passwords; accounts are deactivated.
\* POST /auth/login served: the store it leaves is committed and the token
\* of a successful login is in the client's hands
Login(username_in, password_in) ==
    LET o == login(username_in, password_in) IN
    /\ users' = o.users
    /\ issued' = IF o.resp.status = 200
                 THEN issued \cup {[token |-> o.resp.body[1], t0 |-> now,
                                    expires_in |-> NoLifetime, user_id |-> o.resp.uid]}
                 ELSE issued
    /\ Cardinality(issued') <= MaxIssued
    /\ UNCHANGED <<groups, group_members, posts, comments,
                   next_group_id, next_post_id, next_comment_id,
                   courses, next_course_id, email, password_hash,
                   now, jwt_build, requests>>

\* users.is_active is set to false in the database; no route writes the
\* column, it is the operator's switch that login tests
Deactivate(u) ==
    /\ users[u].is_active
    /\ users' = [users EXCEPT ![u].is_active = FALSE]
    /\ UNCHANGED <<groups, group_members, posts, comments,
                   next_group_id, next_post_id, next_comment_id,
                   courses, next_course_id, email, password_hash,
                   now, issued, jwt_build, requests>>

LoginNames == {Missing, Handle(1), Handle(2), <<" ", "a", "b", "c">>, <<"w", "_", "1">>}
LoginPasswords ==
    {Missing, <<>>, InitialPassword, <<"W", "s", "a", "b", "c", "x", "2", "1">>}

NextLogin ==
    \/ Tick
    \/ \E n \in LoginNames, p \in LoginPasswords : Login(n, p)
    \/ \E u \in SessionUsers : Deactivate(u)
    \/ \E r \in issued :
           Serve(change_password(Bearer(r.token), InitialPassword,
                                 <<"W", "s", "a", "b", "c", "x", "2", "1">>, 2))
    \/ \E r \in issued : Serve(get_profile(Bearer(r.token)))

SpecLogin == Init /\ [][NextLogin]_vars

\* Requests that fail: two users build up groups, members, posts and
\* comments, against which every handler has requests to refuse.
NextFailures ==
    \/ \E hdr \in Readers : Serve(create_group(hdr, "n1"))
    \/ \E hdr \in Readers, gid \in GroupIds : Serve(add_group_member(hdr, gid, None))
    \/ \E hdr \in Readers, gid \in GroupIds : Serve(delete_group(hdr, gid))
    \/ \E hdr \in Readers, gid \in {None} \cup GroupIds : Serve(add_post(hdr, gid))
    \/ \E hdr \in Readers, pid \in PostIds : Serve(delete_post(hdr, pid))
    \/ \E hdr \in Readers, pid \in PostIds : Serve(add_comment(hdr, pid))

SpecFailures == Init /\ [][NextFailures]_vars

\* ================================================================ claims
Token(u) == [kind |-> "token", user_id |-> u, valid |-> TRUE]
SignedIn == {hdr \in Headers : header_user(hdr) # None}

\* the outcome leaves every table and id sequence as it is
StoreUnchanged(o) ==
    /\ o.groups = groups
    /\ o.group_members = group_members
    /\ o.posts = posts
    /\ o.comments = comments
    /\ o.next_group_id = next_group_id
    /\ o.next_post_id = next_post_id
    /\ o.next_comment_id = next_comment_id
    /\ o.courses = courses
    /\ o.next_course_id = next_course_id
    /\ o.users = users
    /\ o.email = email
    /\ o.password_hash = password_hash

HasRow(uid, gid) == <<uid, gid>> \in BagToSet(group_members)
PublicPostIds == {p.id : p \in {q \in Range(posts) : q.group_id = None}}
PostIdsOfGroup(gid) == {p.id : p \in {q \in Range(posts) : q.group_id = gid}}
PostIdsOfGroups(gids) == UNION {PostIdsOfGroup(g) : g \in gids}
GroupsOfUser(uid) == {g \in GroupIds : HasRow(uid, g)}
NoDuplicates(seq) == Cardinality(Range(seq)) = Len(seq)

GroupPostsIn(body) == {pid \in Range(body) : PostOf(pid).group_id # None}
ShownOnlyToMembers(o) ==
    o.resp.status = 200 =>
        \A pid \in GroupPostsIn(o.resp.body) :
            o.resp.user # None /\ HasRow(o.resp.user, PostOf(pid).group_id)

DeletedPostIds == {pid \in PostIds : pid < next_post_id /\ ~PostExists(pid)}

\* C4: for every existing post, with or without comments: DELETE by a
\* signed-in user other than the author is Forbidden and changes nothing;
\* DELETE by the author succeeds and removes the post, and every later
\* request that addresses the post by id is answered NotFound.
C4_DeletePostByAuthorOnly ==
    \A hdr \in SignedIn, pid \in PostIds :
        PostExists(pid) =>
            LET o == delete_post(hdr, pid)
            IN  IF header_user(hdr) # PostOf(pid).user_id
                THEN o.resp.status = 403 /\ StoreUnchanged(o)
                ELSE /\ o.resp.status = 200
                     /\ \A i \in 1..Len(o.posts) : o.posts[i].id # pid

\* the last clause of C4 on its own: a request that addresses a deleted post
\* by id is answered NotFound
C4_DeletedPostIsNotFound ==
    \A hdr \in SignedIn, pid \in DeletedPostIds :
        /\ delete_post(hdr, pid).resp.status = 404
        /\ get_post_comments(pid).resp.status = 404
        /\ add_comment(hdr, pid).resp.status = 404

RowsOf(o) == BagToSet(o.group_members)
Rows == BagToSet(group_members)
OnlyMembersChange(o) ==
    /\ o.groups = groups
    /\ o.posts = posts
    /\ o.comments = comments
    /\ o.next_group_id = next_group_id
    /\ o.next_post_id = next_post_id
    /\ o.next_comment_id = next_comment_id

\* C6: update and delete of a group are permitted exactly when the requester
\* is the group's creator: anyone else, a member included, is Forbidden and
\* the group is unchanged; the creator is permitted also when the creator is
\* not in the member set.
C6_CreatorOnlyUpdateDelete ==
    \A hdr \in SignedIn, g \in DOMAIN groups, name \in Names :
        LET u == header_user(hdr)
            up == update_group(hdr, g, name)
            del == delete_group(hdr, g)
        IN  IF u # groups[g].creator_id
            THEN /\ up.resp.status = 403 /\ StoreUnchanged(up)
                 /\ del.resp.status = 403 /\ StoreUnchanged(del)
            ELSE /\ up.resp.status = 200
                 /\ up.groups = [groups EXCEPT ![g].name = name]
                 /\ del.resp.status # 403
                 /\ PostIdsOfGroup(g) = {} =>
                        del.resp.status = 200 /\ g \notin DOMAIN del.groups

\* a group whose creator has left the member set and still may update and
\* delete it, while a member who is not the creator may not
C6_Witness ==
    \E g \in DOMAIN groups, m \in Users :
        /\ ~HasRow(groups[g].creator_id, g)
        /\ HasRow(m, g)
        /\ update_group(Token(groups[g].creator_id), g, "n2").resp.status = 200
        /\ delete_group(Token(groups[g].creator_id), g).resp.status = 200
        /\ update_group(Token(m), g, "n2").resp.status = 403
        /\ delete_group(Token(m), g).resp.status = 403

\* C7: add-member naming another user is permitted only to the creator
\* (otherwise Forbidden, member set unchanged); naming no user adds the
\* requester; the only row that can be added is (named user, that group).
C7_AddMemberRule ==
    \A hdr \in SignedIn, g \in DOMAIN groups, uid \in {None} \cup UserIdInputs :
        LET u == header_user(hdr)
            target == IF uid = None THEN u ELSE uid
            o == add_group_member(hdr, g, uid)
        IN  /\ OnlyMembersChange(o)
            /\ RowsOf(o) \in {Rows, Rows \cup {<<target, g>>}}
            /\ (uid # None /\ uid # u /\ u # groups[g].creator_id) =>
                   o.resp.status = 403 /\ StoreUnchanged(o)
            /\ (uid = None /\ ~HasRow(u, g)) =>
                   o.resp.status = 200 /\ RowsOf(o) = Rows \cup {<<u, g>>}
            /\ (uid # None /\ uid \in Users /\ u = groups[g].creator_id
                  /\ ~HasRow(uid, g)) =>
                   o.resp.status = 200 /\ RowsOf(o) = Rows \cup {<<uid, g>>}

\* a member who is not the creator is refused when naming a third user, and
\* that third user may join by naming no one
C7_Witness ==
    \E g \in DOMAIN groups, m \in Users, n \in Users :
        /\ m # groups[g].creator_id /\ HasRow(m, g) /\ ~HasRow(n, g)
        /\ add_group_member(Token(m), g, n).resp.status = 403
        /\ add_group_member(Token(n), g, None).resp.status = 200
        /\ add_group_member(Token(groups[g].creator_id), g, n).resp.status = 200

C9_EmptyGroupReached ==
    \E g \in DOMAIN groups :
        /\ {x \in Rows : x[2] = g} = {}
        /\ groups[g].creator_id \in Users

C10_AddSelfOnce ==
    /\ \A r \in Rows : CopiesIn(r, group_members) = 1
    /\ \A u \in Users, g \in DOMAIN groups :
          LET o == add_group_member(Token(u), g, None)
          IN  IF HasRow(u, g)
              THEN /\ o.resp.status = 400
                   /\ o.resp.msg = "User is already a member of this group"
                   /\ StoreUnchanged(o)
              ELSE /\ o.resp.status = 200
                   /\ CopiesIn(<<u, g>>, o.group_members) = 1

\* a user other than the creator is a member, and a further add-self of that
\* user is answered "already a member"
C10_Witness ==
    \E g \in DOMAIN groups, u \in Users :
        /\ u # groups[g].creator_id
        /\ CopiesIn(<<u, g>>, group_members) = 1
        /\ add_group_member(Token(u), g, None).resp.status = 400

\* ------------------------------------------------------------ tokens
\* the lifetime of an issued token in seconds: the one given, else a day
LifetimeOf(r) == IF r.expires_in = NoLifetime THEN 86400 ELSE r.expires_in

\* C11 as stated: a token issued for U at t0 with lifetime T verifies to U at
\* every time t with t0 <= t < t0+T and to Invalid at every t >= t0+T+1; the
\* lifetime is 86400 seconds when none is given.
C11_ExpiryAsStated ==
    \A r \in issued :
        LET T == LifetimeOf(r) * TicksPerSecond
        IN  /\ (r.t0 <= now /\ now < r.t0 + T) =>
                   verify_token_at(r.token, now) = r.user_id
            /\ now >= r.t0 + T + TicksPerSecond =>
                   verify_token_at(r.token, now) = None

\* C11 as amended: the expiry instant is t0+T rounded down to a whole
\* second; the token verifies to U at every t from t0 up to that instant
\* (excluded) and to Invalid at every t >= t0+T+1.
C11_ExpiryWholeSeconds ==
    \A r \in issued :
        LET T == LifetimeOf(r) * TicksPerSecond
            floor_t0 == (r.t0 \div TicksPerSecond) * TicksPerSecond
        IN  /\ (r.t0 <= now /\ now < floor_t0 + T) =>
                   verify_token_at(r.token, now) = r.user_id
            /\ now >= r.t0 + T + TicksPerSecond =>
                   verify_token_at(r.token, now) = None

\* a token of the default lifetime issued inside a second and still verifying
\* a day later, next to a one-second token that has expired
C11_Witness ==
    \E r \in issued, x \in issued :
        /\ r.expires_in = NoLifetime /\ r.t0 % TicksPerSecond # 0
        /\ now >= Day /\ now < (r.t0 \div TicksPerSecond) * TicksPerSecond + Day
        /\ verify_token_at(r.token, now) = r.user_id
        /\ x.expires_in = 1 /\ now >= x.t0 + 2 * TicksPerSecond
        /\ verify_token_at(x.token, now) = None

\* the clock values a run observes
Clock == (0..MaxTicks) \cup (Day..(Day + MaxTicks))

\* what a client without the server's secret can make of a token: claims
\* altered under the signature it came with, the same or altered claims
\* signed with another secret, or no signature at all
AlteredPayloads(p) ==
    {[p EXCEPT !.user_id = v] : v \in UserIdInputs \ {p.user_id}}
    \cup {[p EXCEPT !.exp = p.exp + d] : d \in {1, JWT_ACCESS_TOKEN_EXPIRES}}
    \cup {[p EXCEPT !.username = username(v)] : v \in Users \ {p.user_id}}
Forgeries(token) ==
    {[token EXCEPT !.payload = q] : q \in AlteredPayloads(token.payload)}
    \cup {jwt_encode([q EXCEPT !.exp = timedelta(q.exp)], k) :
             q \in {token.payload} \cup AlteredPayloads(token.payload),
             k \in Keys \ {JWT_SECRET_KEY}}
    \cup {[token EXCEPT !.alg = "none", !.signature = <<>>]}

\* C12: a token signed with a secret other than the server's, or whose
\* claims were altered after signing, verifies to Invalid at every time and
\* in every store state.
C12_ForgedNeverVerifies ==
    \A r \in issued : \A f \in Forgeries(r.token), t \in Clock :
        /\ verify_token_at(f, t) = None
        /\ \A p \in Prefixes :
               header_user(credential(RawHeader(TRUE, p, f), t)) = None

\* an issued token that verifies now while its copy signed with another
\* secret and its copy naming another user do not, next to an expired token
\* whose copy with a later expiry does not verify either
C12_Witness ==
    \E r \in issued, x \in issued :
        /\ verify_token_at(r.token, now) = r.user_id
        /\ verify_token_at(jwt_encode([r.token.payload EXCEPT
                                          !.exp = timedelta(r.token.payload.exp)],
                                      "other-secret"), now) = None
        /\ verify_token_at([r.token EXCEPT !.payload.user_id = (r.user_id % NumUsers) + 1],
                           now) = None
        /\ verify_token_at(x.token, now) = None
        /\ verify_token_at([x.token EXCEPT
                               !.payload.exp = x.token.payload.exp + JWT_ACCESS_TOKEN_EXPIRES],
                           now) = None

\* C13: an issued token that verifies resolves to the user whose id and
\* username the token encodes, and that user is the one it was issued for; it
\* never resolves to another user.
C13_RoundTrip ==
    \A r \in issued, t \in Clock :
        LET v == verify_token_at(r.token, t)
        IN  /\ v \in {None, r.user_id}
            /\ v # None =>
                   /\ v = r.token.payload.user_id
                   /\ username(v) = r.token.payload.username
            /\ (t = r.t0 /\ LifetimeOf(r) >= 1) => v = r.user_id

\* the tokens of two users, each verifying to its own user
C13_Witness ==
    \E r \in issued, x \in issued :
        /\ r.user_id # x.user_id
        /\ verify_token_at(r.token, now) = r.user_id
        /\ verify_token_at(x.token, now) = x.user_id

\* ------------------------------------------------------------ the gate
\* one request to every route behind login_required
ProtectedOutcomes(hdr) ==
    {get_profile(hdr), logout(hdr), update_profile(hdr, Missing),
     change_password(hdr, InitialPassword, InitialPassword, 1),
     add_post(hdr, None), delete_post(hdr, 1), add_comment(hdr, 1),
     add_course(hdr, <<"c", "s", "1">>, TRUE), delete_course(hdr, 1),
     create_group(hdr, "n1"), update_group(hdr, 1, "n2"), delete_group(hdr, 1),
     add_group_member(hdr, 1, None), remove_group_member(hdr, 1, 1),
     get_group_posts(hdr, 1)}

\* the answer login_required gives in place of the handler
GateRejected(o) ==
    /\ o.resp.status = 401
    /\ o.resp.msg \in {"Authorization token required", "Invalid or expired token"}

\* a string that is no JWT, and a token the server signed for a user whose
\* row is gone
Garbage == [wellformed |-> FALSE, alg |-> "HS256",
            payload |-> token_payload(1, 0), signature |-> <<>>]
GhostToken == generate_token(NumUsers + 1, NoLifetime, now)

\* an issued token signed again with another secret
Resigned(tok) ==
    jwt_encode([tok.payload EXCEPT !.exp = timedelta(tok.payload.exp)], "other-secret")

IssuedTokens == {r.token : r \in issued}
Presented ==
    IssuedTokens \cup {Garbage, GhostToken} \cup {Resigned(tok) : tok \in IssuedTokens}
RawHeaders ==
    {RawHeader(FALSE, "", Garbage)} \cup
    {RawHeader(TRUE, p, tok) : p \in Prefixes, tok \in Presented}

\* the header carries an issued token that is within its lifetime
Admitted(raw) ==
    /\ raw.present /\ raw.prefix \in {"", "Bearer "}
    /\ \E r \in issued :
          /\ r.token = raw.token
          /\ r.t0 <= now
          /\ now < (r.t0 \div TicksPerSecond) * TicksPerSecond
                     + LifetimeOf(r) * TicksPerSecond

\* no header, a token the server never issued, an expired one, or the token
\* of a user who does not exist
Refused(raw) ==
    \/ ~raw.present
    \/ raw.token \notin IssuedTokens
    \/ \E r \in issued :
          /\ r.token = raw.token
          /\ now >= r.t0 + LifetimeOf(r) * TicksPerSecond + TicksPerSecond

\* C14: every protected operation is answered 401 by the gate, without
\* running, when the header is absent, the token is Invalid (signature,
\* format, expiry) or its subject is no existing user; otherwise it runs as
\* the user of the token's subject.  "Bearer " is stripped and a token
\* without it is treated identically.
C14_GateDecision ==
    /\ \A raw \in RawHeaders :
          LET current_user == header_user(credential(raw, now))
          IN  /\ Refused(raw) => current_user = None
              /\ Admitted(raw) =>
                     current_user = raw.token.payload.user_id /\ current_user \in Users
    /\ \A hdr \in {credential(raw, now) : raw \in RawHeaders} :
          \A o \in ProtectedOutcomes(hdr) :
              IF header_user(hdr) = None
              THEN GateRejected(o) /\ StoreUnchanged(o)
              ELSE ~GateRejected(o) /\ o.resp.user = header_user(hdr)
    /\ \A tok \in Presented :
          credential(RawHeader(TRUE, "", tok), now) =
          credential(RawHeader(TRUE, "Bearer ", tok), now)

\* an issued token that is admitted with and without the prefix, next to an
\* expired one that is refused, while the ghost user's token is refused too
C14_Witness ==
    \E r \in issued, x \in issued :
        /\ Admitted(RawHeader(TRUE, "Bearer ", r.token))
        /\ create_group(credential(RawHeader(TRUE, "Bearer ", r.token), now), "n1").resp.status = 201
        /\ create_group(credential(RawHeader(TRUE, "", r.token), now), "n1").resp.status = 201
        /\ Refused(RawHeader(TRUE, "Bearer ", x.token))
        /\ GateRejected(create_group(credential(RawHeader(TRUE, "Bearer ", x.token), now), "n1"))
        /\ GateRejected(create_group(credential(RawHeader(TRUE, "", GhostToken), now), "n1"))

\* the headers the gate does not admit: none, a token jwt.decode refuses, and
\* the decoded token of a user who does not exist
GhostHeader == [kind |-> "token", user_id |-> NumUsers + 1, valid |-> TRUE]
RejectedHeaders == {NoHeader, BadToken, GhostHeader}

\* C15: on every path that authenticates, the global post listing included,
\* a request whose bearer token is Invalid is answered unauthenticated and is
\* not served as an anonymous request.
C15_InvalidTokenNeverServed ==
    \A hdr \in {BadToken, credential(RawHeader(TRUE, "Bearer ", Garbage), now)} :
        /\ get_group_posts(hdr, 1).resp.status = 401
        /\ add_post(hdr, None).resp.status = 401
        /\ get_posts(hdr).resp.status = 401

\* C16: every mutating operation (create/delete post, create comment,
\* create/delete course, create/update/delete group, add/remove member,
\* update profile, change password) requested without a header or with a
\* credential the gate rejects is answered unauthenticated and leaves the
\* whole store unchanged.
Unauthenticated(o) == GateRejected(o) /\ StoreUnchanged(o)
C16_MutationsNeedIdentity ==
    \A hdr \in RejectedHeaders :
        /\ \A g \in {None} \cup GroupIds : Unauthenticated(add_post(hdr, g))
        /\ \A p \in PostIds : Unauthenticated(delete_post(hdr, p))
        /\ \A p \in PostIds : Unauthenticated(add_comment(hdr, p))
        /\ \A n \in Names : Unauthenticated(create_group(hdr, n))
        /\ \A g \in GroupIds, n \in Names : Unauthenticated(update_group(hdr, g, n))
        /\ \A g \in GroupIds : Unauthenticated(delete_group(hdr, g))
        /\ \A g \in GroupIds, u \in {None} \cup UserIdInputs :
               Unauthenticated(add_group_member(hdr, g, u))
        /\ \A g \in GroupIds, u \in UserIdInputs :
               Unauthenticated(remove_group_member(hdr, g, u))
        /\ \A c \in {Missing} \cup CodeInputs, n \in BOOLEAN :
               Unauthenticated(add_course(hdr, c, n))
        /\ \A c \in CourseIds : Unauthenticated(delete_course(hdr, c))
        /\ \A e \in {Missing} \cup EmailInputs : Unauthenticated(update_profile(hdr, e))
        /\ \A c \in {Missing, InitialPassword}, n \in {Missing} \cup PasswordInputs,
              salt \in Salts :
               Unauthenticated(change_password(hdr, c, n, salt))

\* a store that holds a group, a post, a comment and a course, on which the
\* deletes sent without a header or with a refused token are turned away
C16_Witness ==
    /\ groups # <<>> /\ posts # <<>> /\ comments # {} /\ courses # {}
    /\ \E p \in Range(posts) : Unauthenticated(delete_post(NoHeader, p.id))
    /\ \E g \in DOMAIN groups : Unauthenticated(delete_group(BadToken, g))
    /\ \E c \in courses : Unauthenticated(delete_course(GhostHeader, c.id))

\* ------------------------------------------------------------ credentials
\* C17: immediately after setCredential(user, P), verifyCredential(user, P)
\* is true and verifyCredential(user, P') is false for every P' other than P;
\* the answer is a truth value in every case.
C17_CredentialRoundTrip ==
    /\ \A p \in PasswordInputs, q \in PasswordInputs, salt \in Salts :
          LET pwhash == set_password(p, salt)
          IN  /\ check_password(pwhash, p) = TRUE
              /\ q # p => check_password(pwhash, q) = FALSE
    /\ \A u \in Users :
          Cardinality({p \in PasswordInputs : check_password(password_hash[u], p)}) = 1

\* two users hold the same password under different salts, a third another
\* password; each hash verifies its own password only
C17_Witness ==
    \E u \in Users, v \in Users, w \in Users, p \in PasswordInputs, q \in PasswordInputs :
        /\ u # v /\ p # q
        /\ password_hash[u].salt # password_hash[v].salt
        /\ check_password(password_hash[u], p) /\ check_password(password_hash[v], p)
        /\ check_password(password_hash[w], q) /\ ~check_password(password_hash[w], p)

\* C18: setCredential with the empty password is rejected by the credential
\* store: the stored credential stays as it was and the empty password does
\* not verify afterwards.
C18_EmptyPasswordRejected ==
    /\ \A u \in Users : ~check_password(password_hash[u], <<>>)
    /\ \A salt \in Salts : ~check_password(set_password(<<>>, salt), <<>>)

\* ------------------------------------------------------------ missing ids
NotFound(o) == o.resp.status = 404 /\ StoreUnchanged(o)

\* C19: update group, delete group, add member, remove member, read group
\* posts, create comment, delete post and delete course, sent by a signed-in
\* requester with an id of no resource, are answered NotFound (not Forbidden,
\* not an internal error) and leave the store unchanged.
C19_MissingIdIsNotFound ==
    \A hdr \in SignedIn :
        /\ \A p \in PostIds : ~PostExists(p) => NotFound(delete_post(hdr, p))
        /\ \A c \in CourseIds : ~CourseExists(c) => NotFound(delete_course(hdr, c))
        /\ \A p \in PostIds : ~PostExists(p) => NotFound(add_comment(hdr, p))
        /\ \A g \in GroupIds :
               ~GroupExists(g) =>
                   /\ NotFound(update_group(hdr, g, "n1"))
                   /\ NotFound(delete_group(hdr, g))
                   /\ NotFound(add_group_member(hdr, g, None))
                   /\ NotFound(remove_group_member(hdr, g, header_user(hdr)))
                   /\ NotFound(get_group_posts(hdr, g))

\* C20: where a request fails both the existence check and the permission
\* check, the missing resource decides: a request that names a group, a post
\* or a target user that does not exist is not answered Forbidden.
C20_ExistenceBeforePermission ==
    \A hdr \in SignedIn :
        /\ \A p \in PostIds : ~PostExists(p) => delete_post(hdr, p).resp.status = 404
        /\ \A g \in GroupIds, u \in UserIdInputs :
               (~GroupExists(g) \/ u \notin Users) =>
                   /\ add_group_member(hdr, g, u).resp.status # 403
                   /\ remove_group_member(hdr, g, u).resp.status # 403
        /\ \A g \in GroupIds :
               ~GroupExists(g) =>
                   /\ update_group(hdr, g, "n1").resp.status # 403
                   /\ delete_group(hdr, g).resp.status # 403
                   /\ get_group_posts(hdr, g).resp.status # 403
                   /\ add_post(hdr, g).resp.status = 404

\* ------------------------------------------------------------ registration
\* a registration whose fields pass validation
ValidRegistration(n, e, p) ==
    /\ Missing \notin {n, e, p}
    /\ validate_username(strip(n))
    /\ validate_email(strip(e))
    /\ validate_password(p)

HandleHeld(n) == \E v \in DOMAIN users : users[v].username = strip(n)
EmailHeld(e, except) == \E v \in DOMAIN users \ except : email[v] = strip(e)

RefusedAsDuplicate(o, msg) ==
    /\ o.resp.status = 400
    /\ o.resp.msg = msg
    /\ o.resp.body = <<>>
    /\ StoreUnchanged(o)

\* C21: no two users share a username or an email in any reachable state; a
\* registration or a profile update of valid fields that would duplicate one
\* is answered 400 "... already exists", leaves the store as it was (no user
\* created or modified) and carries no token.
C21_UniqueHandlesAndEmails ==
    /\ \A u \in DOMAIN users, v \in DOMAIN users :
           u # v => users[u].username # users[v].username /\ email[u] # email[v]
    /\ DOMAIN email = DOMAIN users
    /\ \A n \in UsernameInputs, e \in EmailInputs, p \in RegisterPasswords,
          salt \in Salts :
           LET o == register(n, e, p, salt) IN
           /\ (ValidRegistration(n, e, p) /\ (HandleHeld(n) \/ EmailHeld(e, {})))
                  => RefusedAsDuplicate(o, "Username or email already exists")
           /\ o.resp.status # 201 => StoreUnchanged(o) /\ o.resp.body = <<>>
    /\ \A hdr \in SignedIn, e \in EmailInputs :
           LET o == update_profile(hdr, e) IN
           (validate_email(strip(e)) /\ EmailHeld(e, {hdr.user_id}))
               => RefusedAsDuplicate(o, "Email already exists")

\* two users are registered, one has changed its email, and both a
\* registration and a profile update that would duplicate are refused
C21_Witness ==
    \E u \in DOMAIN users, v \in DOMAIN users :
        /\ u # v
        /\ email[v] \notin {Email(1), Email(2)}
        /\ register(users[u].username, <<" ", "w", "@", "x", ".", "c", "a">>,
                    InitialPassword, 1).resp.status = 400
        /\ register(<<"w", "_", "1">>, email[u], InitialPassword, 1).resp.msg
               = "Username or email already exists"
        /\ update_profile(Token(v), email[u]).resp.msg = "Email already exists"

\* ------------------------------------------------------------ sessions
\* what the token's own content and the clock say: the user it was issued
\* for while it is unexpired and that user has a row
ValidByContent(r, t) ==
    IF ~expired(r.token.payload.exp, t) /\ UserExists(r.user_id)
    THEN r.user_id
    ELSE None

\* C22: a token's validity is decided by its signature, its expiry and the
\* existence of its subject only; logout changes nothing in the store; a
\* token that verifies keeps verifying across every step (logout and password
\* change included) for as long as it is unexpired.
C22_TokensOutliveLogout ==
    /\ [](/\ \A r \in issued : verify_token_at(r.token, now) = ValidByContent(r, now)
          /\ \A r \in issued : StoreUnchanged(logout(Bearer(r.token)))
          /\ \A hdr \in Headers : StoreUnchanged(logout(hdr)))
    /\ [][\A r \in issued :
              (verify_token_at(r.token, now) # None
               /\ ~expired(r.token.payload.exp, now'))
                  => verify_token_at(r.token, now)' = r.user_id]_vars

\* the holder of the only token issued has replaced its password with it,
\* and the token still verifies and opens logout
C22_Witness ==
    \E r \in issued :
        /\ password_hash[r.user_id] # generate_password_hash(InitialPassword, 1)
        /\ verify_token_at(r.token, now) = r.user_id
        /\ issued = {r}
        /\ logout(Bearer(r.token)).resp.status = 200

\* ------------------------------------------------------------ visibility
\* what user b is answered about group g by requests served on this store
ShutOut(b, g) ==
    /\ get_group_posts(Token(b), g).resp.status = 403
    /\ add_post(Token(b), g).resp.status = 403
    /\ StoreUnchanged(add_post(Token(b), g))
    /\ Range(get_posts(Token(b)).resp.body) \cap PostIdsOfGroup(g) = {}

\* C23: every decision is taken from the store as it is when the request is
\* served: whoever has no membership row of an existing group is refused its
\* posts and posting in it and is listed none of its posts, and this holds in
\* the very state a removal of the user from the group leaves.
C23_RemovalTakesEffectAtOnce ==
    /\ [](\A b \in Users, g \in DOMAIN groups : ~HasRow(b, g) => ShutOut(b, g))
    /\ [][\A b \in Users, g \in DOMAIN groups :
              (HasRow(b, g) /\ g \in DOMAIN groups' /\ ~HasRow(b, g)')
                  => ShutOut(b, g)']_vars

\* a user who posted in a group (as a member) is no longer a member of it,
\* another member remains, and the user is shut out of the group
C23_Witness ==
    \E g \in DOMAIN groups, b \in Users, a \in Users :
        /\ a # b /\ HasRow(a, g) /\ ~HasRow(b, g)
        /\ \E i \in 1..Len(posts) : posts[i].group_id = g /\ posts[i].user_id = b
        /\ ShutOut(b, g)

\* ------------------------------------------------------------ comments
\* the requester can see the post: it is public or in a group of theirs
CanSee(uid, p) == p.group_id = None \/ HasRow(uid, p.group_id)

\* C24: for every authenticated requester R and every stored post P that R
\* can see, add_comment answers 201 and adds exactly one comment, whose
\* author is R and whose post is P; posts, groups and memberships stay.
C24_CommentOnVisiblePost ==
    \A hdr \in SignedIn, i \in 1..Len(posts) :
        CanSee(hdr.user_id, posts[i]) =>
            LET o == add_comment(hdr, posts[i].id)
                added == o.comments \ comments
            IN  /\ o.resp.status = 201
                /\ comments \subseteq o.comments
                /\ Cardinality(added) = 1
                /\ \A c \in added : c.user_id = hdr.user_id /\ c.post_id = posts[i].id
                /\ \A c \in added, d \in comments : c.id # d.id
                /\ o.posts = posts
                /\ o.groups = groups
                /\ o.group_members = group_members

\* a member of a group has commented on another member's post in that group
C24_Witness ==
    \E c \in comments, i \in 1..Len(posts) :
        /\ posts[i].id = c.post_id
        /\ posts[i].group_id # None
        /\ posts[i].user_id # c.user_id
        /\ HasRow(c.user_id, posts[i].group_id)

\* ------------------------------------------------------------ courses
\* C25: every authenticated user may delete every stored course (a course
\* has no owner): the answer is 200, exactly that course leaves the courses
\* table and nothing else in the store changes.
C25_AnyUserDeletesCourse ==
    \A hdr \in SignedIn, c \in courses :
        LET o == delete_course(hdr, c.id) IN
        /\ o.resp.status = 200
        /\ o.courses = courses \ {c}
        /\ StoreUnchanged([o EXCEPT !.courses = courses])

\* two courses were added and one of them has been deleted: the other is
\* still stored, and every user could delete it too
C25_Witness ==
    \E c \in courses :
        /\ courses = {c}
        /\ next_course_id = 3
        /\ \A hdr \in SignedIn : delete_course(hdr, c.id).courses = {}

\* ------------------------------------------------------------ creators
\* the outcome leaves the creator of every group that stays as it is
KeepsCreators(o) ==
    \A g \in DOMAIN groups \cap DOMAIN o.groups :
        o.groups[g].creator_id = groups[g].creator_id

\* C26: right after create_group by A the new group's creator is A and its
\* members are exactly {A}; no update of a group, addition or removal of a
\* member, and no post or comment operation changes the creator of any
\* group, and no step of the system does.
C26_CreatorIsFixed ==
    /\ [](/\ \A hdr \in SignedIn, name \in Names :
                LET o == create_group(hdr, name)
                    g == next_group_id
                IN  /\ o.resp.status = 201
                    /\ g \notin DOMAIN groups
                    /\ o.groups[g].creator_id = hdr.user_id
                    /\ {r \in BagToSet(o.group_members) : r[2] = g} = {<<hdr.user_id, g>>}
                    /\ CopiesIn(<<hdr.user_id, g>>, o.group_members) = 1
                    /\ KeepsCreators(o)
          /\ \A hdr \in Headers, g \in GroupIds :
                /\ \A name \in Names : KeepsCreators(update_group(hdr, g, name))
                /\ \A u \in {None} \cup UserIdInputs :
                       KeepsCreators(add_group_member(hdr, g, u))
                /\ \A u \in UserIdInputs : KeepsCreators(remove_group_member(hdr, g, u))
                /\ KeepsCreators(add_post(hdr, g))
          /\ \A hdr \in Headers, p \in PostIds :
                /\ KeepsCreators(delete_post(hdr, p))
                /\ KeepsCreators(add_comment(hdr, p)))
    /\ [][\A g \in DOMAIN groups \cap DOMAIN groups' :
              groups'[g].creator_id = groups[g].creator_id]_vars

\* a group has been renamed, its creator has left it, another user has
\* joined and posted in it, and the post carries a comment
C26_Witness ==
    \E g \in DOMAIN groups, m \in Users, c \in comments :
        /\ groups[g].name = "n2"
        /\ groups[g].creator_id # m
        /\ ~HasRow(groups[g].creator_id, g) /\ HasRow(m, g)
        /\ PostExists(c.post_id) /\ PostOf(c.post_id).group_id = g

\* ------------------------------------------------------------ listing order
\* the place of a post id in the posts table
PlaceOf(pid) == CHOOSE i \in 1..Len(posts) : posts[i].id = pid

\* ids is a selection of the stored post ids in stored order, none twice
OrderedSelection(ids) ==
    /\ \A i \in 1..Len(ids) : PostExists(ids[i])
    /\ \A i \in 1..Len(ids), j \in 1..Len(ids) :
           i < j => PlaceOf(ids[i]) < PlaceOf(ids[j])

MembersOf(g) == {x[1] : x \in {y \in Rows : y[2] = g}}

C29_CreatorRemovalNeverStrands ==
    [][\A g \in DOMAIN groups :
           (HasRow(groups[g].creator_id, g) /\ ~HasRow(groups[g].creator_id, g)')
               => MembersOf(g) = {groups[g].creator_id}]_vars

Finished == {i \in DOMAIN requests : requests[i].pc = "done"}
SameAddition(i, j) ==
    /\ i # j
    /\ requests[i].op = "add" /\ requests[j].op = "add"
    /\ requests[i].group_id = requests[j].group_id
    /\ user_to_add(requests[i]) = user_to_add(requests[j])
    /\ \A k \in {i, j} : requests[k].status \notin {403}

\* C30: when two add-member requests for the same user and group have both
\* returned, the store holds one row for the pair, exactly one request has
\* succeeded and the other was answered "already a member".
C30_ConcurrentAddsConflict ==
    \A i \in Finished, j \in Finished :
        (SameAddition(i, j) /\ GroupExists(requests[i].group_id)) =>
            /\ CopiesIn(<<user_to_add(requests[i]), requests[i].group_id>>,
                        group_members) = 1
            /\ Cardinality({k \in {i, j} : requests[k].status = 200}) = 1
            /\ \A k \in {i, j} :
                   requests[k].status # 200 =>
                       /\ requests[k].status = 400
                       /\ requests[k].msg = "User is already a member of this group"

Entitled(n, p) ==
    IF Missing \in {n, p} THEN {}
    ELSE {u \in DOMAIN users : /\ users[u].username = strip(n)
                               /\ check_password_hash(password_hash[u], p)
                               /\ users[u].is_active}

\* C32: login returns a token exactly when a user has the given handle, the
\* password verifies against that user's hash and the user is active.  On
\* success the token verifies to that user and the store changes in that
\* user's last_login only; on failure no token is returned and the store is
\* as before.
C32_LoginIffEntitled ==
    \A n \in LoginNames, p \in LoginPasswords :
        LET o == login(n, p) IN
        /\ (o.resp.body # <<>>) <=> (Entitled(n, p) # {})
        /\ (o.resp.status = 200) <=> (o.resp.body # <<>>)
        /\ \A u \in Entitled(n, p) :
               /\ Len(o.resp.body) = 1
               /\ o.resp.body[1].payload.user_id = u
               /\ verify_token_at(o.resp.body[1], now) = u
               /\ o.users = [users EXCEPT ![u].last_login = now]
               /\ StoreUnchanged([o EXCEPT !.users = users])
        /\ Entitled(n, p) = {} => StoreUnchanged(o)

\* one user has logged in after the clock moved, another is deactivated and
\* is refused with the right password while the first is still let in
C32_Witness ==
    \E u \in DOMAIN users, v \in DOMAIN users :
        /\ users[u].last_login > 0
        /\ users[u].is_active /\ ~users[v].is_active
        /\ login(users[v].username, InitialPassword).resp.msg = "Account is deactivated"
        /\ login(users[u].username, InitialPassword).resp.status = 200

Verifies(u, c) == c # Missing /\ check_password_hash(password_hash[u], c)

\* C34: change_password by U with a current password that does not verify
\* fails and leaves U's hash (and the store) as it was; with one that
\* verifies and a new password that passes validate_password it succeeds,
\* the new password verifies for U afterwards, the old one (if different)
\* does not, and no other user's hash changes.
C34_ChangePassword ==
    \A hdr \in SignedIn, c \in {Missing} \cup PasswordInputs,
       n \in {Missing} \cup PasswordInputs, salt \in Salts :
        LET u == hdr.user_id
            o == change_password(hdr, c, n, salt)
        IN  /\ ~Verifies(u, c) => o.resp.status # 200 /\ StoreUnchanged(o)
            /\ (Verifies(u, c) /\ n # Missing /\ validate_password(n)) =>
                   /\ o.resp.status = 200
                   /\ check_password_hash(o.password_hash[u], n)
                   /\ c # n => ~check_password_hash(o.password_hash[u], c)
                   /\ \A v \in Users \ {u} : o.password_hash[v] = password_hash[v]
                   /\ StoreUnchanged([o EXCEPT !.password_hash = password_hash])
            /\ (Verifies(u, c) /\ (n = Missing \/ ~validate_password(n))) =>
                   o.resp.status = 400 /\ StoreUnchanged(o)

\* a user holds the second password and another the first: the old password
\* is refused for the one, and each can change to the other password
C34_Witness ==
    \E u \in Users, v \in Users :
        LET old == InitialPassword
            new == <<"W", "s", "a", "b", "c", "x", "2", "1">>
        IN  /\ u # v
            /\ check_password_hash(password_hash[u], new)
            /\ check_password_hash(password_hash[v], old)
            /\ change_password(Token(u), old, new, 1).resp.status = 401
            /\ change_password(Token(u), new, old, 1).resp.status = 200
            /\ change_password(Token(v), old, new, 2).password_hash[u] = password_hash[u]

\* ------------------------------------------------------------ course creation
\* the codes create-course is asked for, one of them with a leading blank
CourseCodes == CodeInputs \cup {<<" ", "a", "b", "2">>}

\* the code a course is stored under: the code given, sanitised, in upper case
Canon(code) == upper(strip(code))
Held(code) == {c \in courses : c.code = Canon(code)}

\* C35: add_course by an authenticated user with a valid code c and a name:
\* if a course is stored under the upper-case form of c nothing is created
\* and that course is returned; otherwise exactly one course is created,
\* under the upper-case form of c, and returned.  A second call changes
\* nothing.  In every reachable state every stored code is upper case and no
\* two courses share a code.
C35_CreateCourseIdempotent ==
    /\ \A c \in courses : c.code = upper(c.code)
    /\ \A c \in courses, d \in courses : c.code = d.code => c = d
    /\ \A hdr \in SignedIn, code \in CourseCodes :
           validate_course_code(strip(code)) =>
               LET o == add_course(hdr, code, TRUE) IN
               /\ o.resp.status = 200
               /\ Held(code) # {} =>
                      /\ StoreUnchanged(o)
                      /\ o.resp.body = <<CHOOSE c \in Held(code) : TRUE>>
               /\ Held(code) = {} =>
                      /\ Cardinality(o.courses \ courses) = 1
                      /\ courses \subseteq o.courses
                      /\ \A c \in o.courses \ courses :
                             /\ c.code = Canon(code)
                             /\ o.resp.body = <<c>>
                             /\ \A d \in courses : d.id # c.id
                      /\ StoreUnchanged([o EXCEPT !.courses = courses,
                                                  !.next_course_id = next_course_id])
               /\ Cardinality({c \in o.courses : c.code = Canon(code)}) = 1

\* two courses are stored, one of them asked for in lower case: asking for
\* it again in either case, by another user, returns it and stores nothing
C35_Witness ==
    /\ Cardinality(courses) = 2
    /\ \E c \in courses :
           /\ c.code = <<"C", "S", "1">>
           /\ add_course(Token(2), <<"c", "s", "1">>, TRUE).resp.body = <<c>>
           /\ add_course(Token(3), <<"C", "S", "1">>, TRUE).courses = courses

\* ------------------------------------------------------------ failed requests
\* the request does not report success
Failed(o) == o.resp.status \notin {200, 201}
Harmless(o) == Failed(o) => StoreUnchanged(o)

====
